---- MODULE Spec2Model ----
(***************************************************************************)
(* A model of the ProxLB web interface backend: the log parser             *)
(* (services/log_parser.py), the live log endpoint and the configuration   *)
(* endpoints (main.py), the accounts (auth/) and the container service     *)
(* (services/proxlb_service.py).                                           *)
(*                                                                         *)
(* Log lines are TLA+ strings, indexed with SubSeq.  The regular           *)
(* expressions of LogParser.__init__ are written as sequences of items     *)
(* and matched with the priorities of Python's re (leftmost start, greedy  *)
(* or lazy repetition, ordered alternation), so that the groups captured   *)
(* are the ones Python captures.                                           *)
(*                                                                         *)
(* The specifications share the variables: Spec, the calls of the         *)
(* LogParser on the container's log; SpecClassify, _parse_log_line on one  *)
(* line at different moments; SpecWindow, the summary and the migrations   *)
(* of longer logs; SpecApi, the HTTP endpoints over the parser; SpecConc,  *)
(* two concurrent calls of the parser; SpecWS, one session of              *)
(* websocket_logs; SpecReset, the password reset tokens; SpecTotp, the     *)
(* two-factor routes; SpecAccess, login and the protected endpoints;       *)
(* SpecCfg, the configuration file; SpecDocker, ProxLBService.start().     *)
(***************************************************************************)
EXTENDS Integers, Sequences, FiniteSets, TLC

(***************************************************************************)
(* Characters and Python's str helpers.                                    *)
(***************************************************************************)
Digit == {"0", "1", "2", "3", "4", "5", "6", "7", "8", "9"}

LowerLetter == {"a", "b", "c", "d", "e", "f", "g", "h", "i", "j", "k", "l", "m",
                "n", "o", "p", "q", "r", "s", "t", "u", "v", "w", "x", "y", "z"}

UpperOf == [c \in LowerLetter |->
              CASE c = "a" -> "A" [] c = "b" -> "B" [] c = "c" -> "C" [] c = "d" -> "D"
                [] c = "e" -> "E" [] c = "f" -> "F" [] c = "g" -> "G" [] c = "h" -> "H"
                [] c = "i" -> "I" [] c = "j" -> "J" [] c = "k" -> "K" [] c = "l" -> "L"
                [] c = "m" -> "M" [] c = "n" -> "N" [] c = "o" -> "O" [] c = "p" -> "P"
                [] c = "q" -> "Q" [] c = "r" -> "R" [] c = "s" -> "S" [] c = "t" -> "T"
                [] c = "u" -> "U" [] c = "v" -> "V" [] c = "w" -> "W" [] c = "x" -> "X"
                [] c = "y" -> "Y" [] c = "z" -> "Z"]

UpperLetter == {UpperOf[c] : c \in LowerLetter}

LowerOf == [u \in UpperLetter |-> CHOOSE c \in LowerLetter : UpperOf[c] = u]

\* \w, \s and the newline that "." does not match (the subject is lower-cased
\* before matching, see Lower, so the classes hold lower-case letters only)
Word == LowerLetter \cup Digit \cup {"_"}

Space == {" ", "\t", "\n", "\r"}

Newline == {"\n"}

CharAt(s, i) == SubSeq(s, i, i)

\* the one element of a singleton.  Val({e(x) : x \in {d}}) is e with x bound to
\* the value of d: d is computed once, however often e reads x.  The recursive
\* operators below bind their arguments this way before they use them.
Val(S) == CHOOSE v \in S : TRUE

\* the characters lo..hi of s, each mapped through f
RECURSIVE MapChars(_, _, _, _)
MapChars(s, lo, hi, f) ==
  Val({ IF a > b THEN ""
        ELSE IF a = b
        THEN Val({IF c \in DOMAIN f THEN f[c] ELSE c : c \in {CharAt(str, a)}})
        ELSE Val({MapChars(str, a, mid, f) \o MapChars(str, mid + 1, b, f)
                  : mid \in {(a + b) \div 2}})
        : str \in {s}, a \in {lo}, b \in {hi} })

\* str.lower(), str.upper()
Lower(s) == MapChars(s, 1, Len(s), LowerOf)

Upper(s) == MapChars(s, 1, Len(s), UpperOf)

\* str.strip()
Strip(s) ==
  IF \A i \in 1..Len(s) : CharAt(s, i) \in Space THEN ""
  ELSE SubSeq(s,
              CHOOSE i \in 1..Len(s) :
                CharAt(s, i) \notin Space /\ \A j \in 1..(i - 1) : CharAt(s, j) \in Space,
              CHOOSE i \in 1..Len(s) :
                CharAt(s, i) \notin Space /\ \A j \in (i + 1)..Len(s) : CharAt(s, j) \in Space)

\* the "in" operator on strings
Contains(s, sub) ==
  \E i \in 1..(Len(s) - Len(sub) + 1) : SubSeq(s, i, i + Len(sub) - 1) = sub

\* str.split("\n")
SplitAt(s, nl) ==
  LET \* the k-th newline, with 0 before the first and Len(s) + 1 after the last
      at(k) == IF k = 0 THEN 0
               ELSE IF k > Cardinality(nl) THEN Len(s) + 1
               ELSE CHOOSE i \in nl : Cardinality({j \in nl : j < i}) = k - 1
  IN [k \in 1..(Cardinality(nl) + 1) |-> SubSeq(s, at(k - 1) + 1, at(k) - 1)]

SplitLines(s) == Val({SplitAt(s, nl) : nl \in {{i \in 1..Len(s) : CharAt(s, i) = "\n"}}})

(***************************************************************************)
(* Regular expressions (module re, re.IGNORECASE).  The subject is         *)
(* lower-cased before matching and so is every literal; the groups are     *)
(* read from the subject as written.                                       *)
(***************************************************************************)
\* a literal, matched without regard to case
Lit(s) == [t |-> "lit", s |-> Lower(s)]

\* a character class repeated between min and max times (max < 0: unbounded);
\* cap > 0: the repetition is the whole of group cap
RepC(set, neg, min, max, greedy) ==
  [t |-> "rep", set |-> set, neg |-> neg, min |-> min, max |-> max, greedy |-> greedy,
   cap |-> 0]

\* (item): the repetition as group k
Cap(k, item) == [item EXCEPT !.cap = k]

\* a fixed run of single characters: "d" stands for \d, any other character for itself
Shape(pic) == [t |-> "shape", pic |-> pic]

\* the start and the end of a group that is more than one repetition
Open(k) == [t |-> "open", k |-> k]

Close(k) == [t |-> "close", k |-> k]

Alt(alts) == [t |-> "alt", alts |-> alts]

Opt(sub) == [t |-> "opt", sub |-> sub]

WordBoundary == [t |-> "wb"]

NoMatch == [ok |-> FALSE]

\* the groups: <<start, end>> of each, the end exclusive
NoGroups == [k \in 1..4 |-> <<0, 0>>]

SetGroup(caps, k, from, to) == IF k = 0 THEN caps ELSE [caps EXCEPT ![k] = <<from, to>>]

InClass(it, c) == (c \in it.set) # it.neg

\* how many characters from pos on are in the class of it, up to it.max
RunLen(it, s, pos) ==
  LET cap == IF it.max >= 0 /\ it.max < Len(s) - pos + 1 THEN it.max ELSE Len(s) - pos + 1
  IN IF \A n \in 0..(cap - 1) : InClass(it, CharAt(s, pos + n)) THEN cap
     ELSE CHOOSE n \in 0..(cap - 1) :
            /\ ~InClass(it, CharAt(s, pos + n))
            /\ \A m \in 0..(n - 1) : InClass(it, CharAt(s, pos + m))

LitAt(lit, s, pos) == pos + Len(lit) - 1 <= Len(s) /\ SubSeq(s, pos, pos + Len(lit) - 1) = lit

ShapeAt(pic, s, pos) ==
  /\ pos + Len(pic) - 1 <= Len(s)
  /\ \A i \in 1..Len(pic) :
       IF CharAt(pic, i) = "d" THEN CharAt(s, pos + i - 1) \in Digit
       ELSE CharAt(s, pos + i - 1) = CharAt(pic, i)

IsWordAt(s, i) == i >= 1 /\ i <= Len(s) /\ CharAt(s, i) \in Word

\* a look at the first character the items need at pos: FALSE only where the
\* items cannot match
RECURSIVE CanStart(_, _, _)
CanStart(items, s, pos) ==
  Val({ IF its = <<>> THEN TRUE
        ELSE Val({ CASE it.t = "lit" -> LitAt(it.s, s, p)
                     [] it.t = "shape" -> ShapeAt(it.pic, s, p)
                     [] it.t \in {"open", "close"} -> CanStart(Tail(its), s, p)
                     [] it.t = "alt" ->
                          \E i \in 1..Len(it.alts) : CanStart(it.alts[i] \o Tail(its), s, p)
                     [] it.t = "opt" -> TRUE
                     [] it.t = "wb" -> IsWordAt(s, p - 1) # IsWordAt(s, p)
                     [] it.t = "rep" ->
                          it.min = 0 \/ (p <= Len(s) /\ InClass(it, CharAt(s, p)))
                   : it \in {Head(its)} })
        : its \in {items}, p \in {pos} })

(***************************************************************************)
(* The matcher.  A backtracking matcher returns the first match in         *)
(* priority order: at each choice (the count of a repetition, greatest     *)
(* first when greedy and least first when lazy; the alternative, in        *)
(* order; an optional group, taken first) it keeps the first option from   *)
(* which the rest of the pattern can still match.  EndsFrom computes where *)
(* the items can end, MatchItems makes each choice with it.                 *)
(***************************************************************************)
RECURSIVE EndsFrom(_, _, _)

\* the positions after one item matched from a position of P
Step(it, s, P) ==
  CASE it.t = "lit" -> {p + Len(it.s) : p \in {q \in P : LitAt(it.s, s, q)}}
    [] it.t = "shape" -> {p + Len(it.pic) : p \in {q \in P : ShapeAt(it.pic, s, q)}}
    [] it.t \in {"open", "close"} -> P
    [] it.t = "wb" -> {p \in P : IsWordAt(s, p - 1) # IsWordAt(s, p)}
    [] it.t = "rep" -> UNION {{p + n : n \in it.min..RunLen(it, s, p)} : p \in P}
    [] it.t = "alt" -> UNION {EndsFrom(it.alts[i], s, P) : i \in 1..Len(it.alts)}
    [] it.t = "opt" -> P \cup EndsFrom(it.sub, s, P)

\* the positions where the items can end when matched from a position of starts
EndsFrom(items, s, starts) ==
  Val({ IF its = <<>> \/ from = {} THEN from
        ELSE Val({ EndsFrom(Tail(its), s, P)
                   : P \in {Val({Step(it, s, from) : it \in {Head(its)}})} })
        : its \in {items}, from \in {starts} })

\* the items can match at pos
Viable(items, s, pos) ==
  Val({ CanStart(its, s, p) /\ EndsFrom(its, s, {p}) # {} : its \in {items}, p \in {pos} })

Least(S) == CHOOSE n \in S : \A m \in S : n <= m

Greatest(S) == CHOOSE n \in S : \A m \in S : n >= m

\* the count a repetition takes at pos: the first, in the order of its
\* priority, after which the rest can match
CountAt(it, rest, s, pos) ==
  Val({ IF it.greedy THEN Greatest(counts) ELSE Least(counts)
        : counts \in {{n \in it.min..RunLen(it, s, pos) : Viable(rest, s, pos + n)}} })

\* the match of one item and the rest at pos, groups being caps so far
RECURSIVE MatchItems(_, _, _, _)
MatchItem(it, rest, s, pos, caps) ==
  CASE it.t = "lit" -> MatchItems(rest, s, pos + Len(it.s), caps)
    [] it.t = "shape" -> MatchItems(rest, s, pos + Len(it.pic), caps)
    [] it.t = "open" -> MatchItems(rest, s, pos, [caps EXCEPT ![it.k] = <<pos, pos>>])
    [] it.t = "close" ->
         MatchItems(rest, s, pos, [caps EXCEPT ![it.k] = <<caps[it.k][1], pos>>])
    [] it.t = "wb" -> MatchItems(rest, s, pos, caps)
    [] it.t = "alt" ->
         MatchItems(it.alts[Least({i \in 1..Len(it.alts) :
                                      Viable(it.alts[i] \o rest, s, pos)})] \o rest,
                    s, pos, caps)
    [] it.t = "opt" ->
         IF Viable(it.sub \o rest, s, pos)
         THEN MatchItems(it.sub \o rest, s, pos, caps)
         ELSE MatchItems(rest, s, pos, caps)
    [] it.t = "rep" ->
         Val({ MatchItems(rest, s, pos + n, SetGroup(caps, it.cap, pos, pos + n))
               : n \in {CountAt(it, rest, s, pos)} })

\* the match of the items at pos of s, which Viable(items, s, pos) says exists
MatchItems(items, s, pos, caps) ==
  Val({ IF its = <<>> THEN [ok |-> TRUE, end |-> p, caps |-> c]
        ELSE Val({ MatchItem(it, rest, s, p, c) : it \in {Head(its)}, rest \in {Tail(its)} })
        : its \in {items}, p \in {pos}, c \in {caps} })

\* pattern.match(s): anchored at the start of s
ReMatch(re, s) ==
  Val({ IF Viable(re, ls, 1) THEN MatchItems(re, ls, 1, NoGroups) ELSE NoMatch
        : ls \in {Lower(s)} })

\* the starts of s at which re matches
MatchStarts(re, ls) == {i \in 1..(Len(ls) + 1) : Viable(re, ls, i)}

\* pattern.search(s): the leftmost match
ReSearch(re, s) ==
  Val({ Val({ IF starts = {} THEN NoMatch ELSE MatchItems(re, ls, Least(starts), NoGroups)
              : starts \in {MatchStarts(re, ls)} })
        : ls \in {Lower(s)} })

\* pattern.search(s) is not None
ReFound(re, s) == Val({MatchStarts(re, ls) # {} : ls \in {Lower(s)}})

\* match.group(k), taken from the subject as written
Group(s, m, k) == SubSeq(s, m.caps[k][1], m.caps[k][2] - 1)

\* frequent items
Star(set, neg) == RepC(set, neg, 0, -1, TRUE)

Plus(set, neg) == RepC(set, neg, 1, -1, TRUE)

LazyStar(set, neg) == RepC(set, neg, 0, -1, FALSE)

OptChar(c) == RepC({c}, FALSE, 0, 1, TRUE)

\* .* and .*? and .+
AnyStar == Star(Newline, TRUE)

AnyLazy == LazyStar(Newline, TRUE)

AnyPlus == Plus(Newline, TRUE)

(***************************************************************************)
(* LogParser.__init__: the pattern catalog.                                *)
(***************************************************************************)
\* the primary grammar with (.*) for the message
log_pattern_star ==
  <<Open(1), Shape("dddd-dd-dd dd:dd:dd"), OptChar(","), RepC(Digit, FALSE, 0, 3, TRUE), Close(1),
    Star(Space, FALSE), OptChar("-"), Star(Space, FALSE),
    Opt(<<Lit("ProxLB"), Star(Space, FALSE), Lit("-"), Star(Space, FALSE)>>),
    Cap(2, Plus(Word, FALSE)),
    Star(Space, FALSE), OptChar("-"), Star(Space, FALSE),
    Cap(3, AnyStar)>>

\* (\d{4}-\d{2}-\d{2} \d{2}:\d{2}:\d{2},?\d{0,3})\s*-?\s*(?:ProxLB\s*-\s*)?(\w+)\s*-?\s*(.+)
log_pattern ==
  <<Open(1), Shape("dddd-dd-dd dd:dd:dd"), OptChar(","), RepC(Digit, FALSE, 0, 3, TRUE), Close(1),
    Star(Space, FALSE), OptChar("-"), Star(Space, FALSE),
    Opt(<<Lit("ProxLB"), Star(Space, FALSE), Lit("-"), Star(Space, FALSE)>>),
    Cap(2, Plus(Word, FALSE)),
    Star(Space, FALSE), OptChar("-"), Star(Space, FALSE),
    Cap(3, AnyPlus)>>

\* (\d{4}-\d{2}-\d{2}[ T]\d{2}:\d{2}:\d{2}).*?(\bINFO\b|\bWARNING\b|\bERROR\b|\bDEBUG\b).*?[:-]\s*(.+)
simple_pattern ==
  <<Open(1), Shape("dddd-dd-dd"), RepC({" ", "t"}, FALSE, 1, 1, TRUE), Shape("dd:dd:dd"), Close(1),
    AnyLazy,
    Open(2),
    Alt(<< <<WordBoundary, Lit("INFO"), WordBoundary>>,
           <<WordBoundary, Lit("WARNING"), WordBoundary>>,
           <<WordBoundary, Lit("ERROR"), WordBoundary>>,
           <<WordBoundary, Lit("DEBUG"), WordBoundary>> >>),
    Close(2),
    AnyLazy, RepC({":", "-"}, FALSE, 1, 1, TRUE), Star(Space, FALSE),
    Cap(3, AnyPlus)>>

\* each pattern with the number of its groups (len(match.groups()))
migration_patterns ==
  << \* Balancing: Starting to migrate (\w+) guest (.+) from (.+) to (.+)\.
     [re |-> <<Lit("Balancing: Starting to migrate "), Cap(1, Plus(Word, FALSE)),
               Lit(" guest "), Cap(2, AnyPlus),
               Lit(" from "), Cap(3, AnyPlus),
               Lit(" to "), Cap(4, AnyPlus), Lit(".")>>,
      n |-> 4],
     \* migrate.*?(\d+).*?from\s+(\S+)\s+to\s+(\S+)
     [re |-> <<Lit("migrate"), AnyLazy, Cap(1, Plus(Digit, FALSE)), AnyLazy,
               Lit("from"), Plus(Space, FALSE), Cap(2, Plus(Space, TRUE)),
               Plus(Space, FALSE), Lit("to"), Plus(Space, FALSE),
               Cap(3, Plus(Space, TRUE))>>,
      n |-> 3],
     \* migration.*?(\S+).*?(started|completed|failed)
     [re |-> <<Lit("migration"), AnyLazy, Cap(1, Plus(Space, TRUE)), AnyLazy,
               Open(2), Alt(<< <<Lit("started")>>, <<Lit("completed")>>, <<Lit("failed")>> >>),
               Close(2)>>,
      n |-> 2],
     \* moving\s+(\S+)\s+from\s+(\S+)\s+to\s+(\S+)
     [re |-> <<Lit("moving"), Plus(Space, FALSE), Cap(1, Plus(Space, TRUE)),
               Plus(Space, FALSE), Lit("from"), Plus(Space, FALSE),
               Cap(2, Plus(Space, TRUE)),
               Plus(Space, FALSE), Lit("to"), Plus(Space, FALSE),
               Cap(3, Plus(Space, TRUE))>>,
      n |-> 3] >>

\* the dict of event patterns, in insertion order
event_patterns ==
  << [tag |-> "migration_start",
      re |-> <<Alt(<< <<Lit("Starting to migrate")>>, <<Lit("migration started")>>,
                      <<Lit("begin"), AnyStar, Lit("migrat")>> >>)>>],
     [tag |-> "migration_complete",
      re |-> <<Alt(<< <<Lit("migration"), AnyStar, Lit("complete")>>,
                      <<Lit("successfully migrated")>>,
                      <<Lit("migration"), AnyStar, Lit("done")>> >>)>>],
     [tag |-> "migration_failed",
      re |-> <<Alt(<< <<Lit("migration"), AnyStar, Lit("fail")>>,
                      <<Lit("failed to migrate")>>,
                      <<Lit("migration"), AnyStar, Lit("error")>> >>)>>],
     [tag |-> "rebalance_start",
      re |-> <<Alt(<< <<Lit("Starting rebalance")>>,
                      <<Lit("begin"), AnyStar, Lit("balanc")>>,
                      <<Lit("starting"), AnyStar, Lit("balanc")>> >>)>>],
     [tag |-> "rebalance_complete",
      re |-> <<Alt(<< <<Lit("Rebalance complete")>>, <<Lit("balancing complete")>>,
                      <<Lit("finished"), AnyStar, Lit("balanc")>> >>)>>],
     [tag |-> "daemon_status",
      re |-> <<Alt(<< <<Lit("Daemon mode")>>, <<Lit("Next run")>>, <<Lit("scheduled")>> >>)>>],
     [tag |-> "config_load",
      re |-> <<Alt(<< <<Lit("config"), AnyStar, Lit("load")>>, <<Lit("loading config")>>,
                      <<Lit("configuration")>> >>)>>],
     [tag |-> "node_status",
      re |-> <<Alt(<< <<Lit("node"), AnyStar, Lit("online")>>,
                      <<Lit("node"), AnyStar, Lit("offline")>>,
                      <<Lit("maintenance")>> >>)>>],
     [tag |-> "error",
      re |-> <<Alt(<< <<Lit("error")>>, <<Lit("exception")>>, <<Lit("failed")>>,
                      <<Lit("failure")>> >>)>>],
     [tag |-> "warning",
      re |-> <<Alt(<< <<Lit("warning")>>, <<Lit("warn")>> >>)>>] >>

(***************************************************************************)
(* LogParser: classification of one line.                                  *)
(***************************************************************************)
None == [none |-> TRUE]

\* datetime.now().strftime("%Y-%m-%d %H:%M:%S") when the clock reads t seconds
\* past 2026-11-01 11:07:00
NowStr(t) == "2026-11-01 11:07:0" \o ToString(t)

\* datetime.now().isoformat() at the same moment
NowIso(t) == "2026-11-01T11:07:0" \o ToString(t)

\* _detect_level looking for the keywords in the line as written
_detect_level_cased(line) ==
  IF Contains(line, "ERROR") \/ Contains(line, "EXCEPTION") \/ Contains(line, "FAILED")
  THEN "ERROR"
  ELSE IF Contains(line, "WARNING") \/ Contains(line, "WARN")
  THEN "WARNING"
  ELSE IF Contains(line, "DEBUG")
  THEN "DEBUG"
  ELSE "INFO"

\* the keywords of WARNING looked for before those of ERROR
_detect_level_warning_first(line) ==
  LET line_upper == Upper(line)
  IN IF Contains(line_upper, "WARNING") \/ Contains(line_upper, "WARN")
     THEN "WARNING"
     ELSE IF Contains(line_upper, "ERROR") \/ Contains(line_upper, "EXCEPTION")
             \/ Contains(line_upper, "FAILED")
     THEN "ERROR"
     ELSE IF Contains(line_upper, "DEBUG")
     THEN "DEBUG"
     ELSE "INFO"

_detect_level(line) ==
  LET line_upper == Upper(line)
  IN IF Contains(line_upper, "ERROR") \/ Contains(line_upper, "EXCEPTION")
          \/ Contains(line_upper, "FAILED")
     THEN "ERROR"
     ELSE IF Contains(line_upper, "WARNING") \/ Contains(line_upper, "WARN")
     THEN "WARNING"
     ELSE IF Contains(line_upper, "DEBUG")
     THEN "DEBUG"
     ELSE "INFO"

\* the loop without its return: the last matching entry wins
RECURSIVE DetectEventLast(_, _)
DetectEventLast(message, i) ==
  IF i > Len(event_patterns) THEN "general"
  ELSE Val({ IF later # "general" THEN later
             ELSE IF ReFound(event_patterns[i].re, message) THEN event_patterns[i].tag
             ELSE "general"
             : later \in {DetectEventLast(message, i + 1)} })

RECURSIVE DetectEventFrom(_, _)
DetectEventFrom(message, i) ==
  IF i > Len(event_patterns) THEN "general"
  ELSE IF ReFound(event_patterns[i].re, message) THEN event_patterns[i].tag
  ELSE DetectEventFrom(message, i + 1)

\* the tag of the last matching entry
_detect_event_type_last(message) == DetectEventLast(message, 1)

_detect_event_type(message) == DetectEventFrom(message, 1)

RECURSIVE ExtractFrom(_, _)
ExtractFrom(message, i) ==
  IF i > Len(migration_patterns) THEN None
  ELSE LET n == migration_patterns[i].n
       IN Val({ IF m.ok /\ n >= 3
                THEN [guest |-> Group(message, m, 1),
                      from_node |-> Group(message, m, 2),
                      to_node |-> Group(message, m, 3),
                      status |-> IF n > 3 THEN Group(message, m, 4) ELSE "started"]
                ELSE IF m.ok /\ n >= 2
                THEN [guest |-> Group(message, m, 1), status |-> Group(message, m, 2)]
                ELSE ExtractFrom(message, i + 1)
                : m \in {ReSearch(migration_patterns[i].re, message)} })

_extract_migration_info(message) == ExtractFrom(message, 1)

\* the first grammar that matches the stripped line, or NoMatch
GrammarMatch(line) ==
  Val({ IF m.ok THEN m ELSE ReSearch(simple_pattern, line)
        : m \in {ReMatch(log_pattern, line)} })

\* the record stamped with the clock whatever matched
TimestampNow(line, match, t) == NowStr(t)

\* the record's timestamp: group 1 of the match, or the clock when nothing matched
TimestampStr(line, match, t) == IF match.ok THEN Group(line, match, 1) ELSE NowStr(t)

\* the truth value of a dict or None ("if migration_info:")
IsTruthy(d) == d # None /\ DOMAIN d # {}

\* the record with is_migration taken from the event type
LogRecordByType(line, match, message, migration_info, t) ==
  LET event_type == _detect_event_type(message)
      result == [timestamp |-> TimestampStr(line, match, t),
                 level |-> IF match.ok THEN Upper(Group(line, match, 2)) ELSE _detect_level(line),
                 message |-> message,
                 event_type |-> event_type,
                 is_migration |->
                   event_type \in {"migration_start", "migration_complete", "migration_failed"}]
  IN IF IsTruthy(migration_info)
     THEN result @@ [migration |-> migration_info]
     ELSE result

\* the record of a stripped line, from its grammar match (or NoMatch), its
\* message and its migration payload (or None)
LogRecord(line, match, message, migration_info, t) ==
  LET timestamp_str == TimestampStr(line, match, t)
      level == IF match.ok THEN Upper(Group(line, match, 2)) ELSE _detect_level(line)
      event_type == _detect_event_type(message)
      result == [timestamp |-> timestamp_str,
                 level |-> level,
                 message |-> message,
                 event_type |-> event_type,
                 is_migration |-> migration_info # None]
  IN IF IsTruthy(migration_info)
     THEN result @@ [migration |-> migration_info]
     ELSE result

\* the message of a stripped line: group 3 of the match stripped, or the line
MessageOf(line, match) == IF match.ok THEN Strip(Group(line, match, 3)) ELSE line

\* _parse_log_line called when the clock reads t
_parse_log_line(line0, t) ==
  Val({ IF line = "" THEN None
        ELSE Val({ Val({ Val({ LogRecord(line, match, message, migration_info, t)
                               : migration_info \in {_extract_migration_info(message)} })
                         : message \in {MessageOf(line, match)} })
                   : match \in {GrammarMatch(line)} })
        : line \in {Strip(line0)} })

(***************************************************************************)
(* The inputs of the model.                                                *)
(***************************************************************************)
\* the bounds of the model: the last clock reading, the lines of the container's
\* log, the greatest count a caller asks for, the calls of the classifier on
\* one line, the lines the container writes during one follow session
MaxClock == 1

MaxSource == 2

MaxReq == 1

MaxCalls == 2

MaxEmit == 3

MaxWindow == 6

MaxLimit == 2

MaxHours == 2

MaxTokens == 2

MaxIssued == 3

ScenarioLine ==
  "2024-12-27 20:30:00,123 - ProxLB - INFO - Balancing: Starting to migrate VM guest 105 from node-a to node-b."

\* the lines the container writes in the model of the service
SourceLines ==
  { ScenarioLine,
    "2024-12-27 20:30:01 Starting rebalance",
    "2024-12-27 20:30:02,5 - ProxLB - error - Migration of guest 7 failed",
    "garbage line with no structure",
    "ok" }

\* the head of a line of ProxLB's logging format
LogHead == "2024-12-27 20:30:00,123 - ProxLB - INFO - "

\* "Balancing: Starting to migrate <type> guest <name> from <src> to <dst>."
MigrateMessage(type, name, src, dst) ==
  "Balancing: Starting to migrate " \o type \o " guest " \o name
    \o " from " \o src \o " to " \o dst \o "."

GuestTypes == {"VM", "CT"}

GuestNames == {"105", "web"}

NodePairs == {<<"node-a", "node-b">>, <<"pve1", "pve2">>}

MigrateLines ==
  {LogHead \o MigrateMessage(ty, n, np[1], np[2]) : ty \in GuestTypes, n \in GuestNames, np \in NodePairs}

\* an ERROR line whose message is longer than the messages errors_recent keeps
LongErrorLine ==
  "2024-12-27 20:30:09,1 - ProxLB - ERROR - migration of 105 completed with errors: "
    \o "the guest was moved but its disk on storage local-lvm could not be removed from node-a"

\* the lines of the longer windows: two are migrations and errors, one is neither
WindowLines ==
  { "2024-12-27 20:30:03,001 - ProxLB - warning - node pve1 is offline",
    "2024-12-27 20:30:02,5 - ProxLB - error - Migration of guest 7 failed",
    LongErrorLine }

\* the lines given to the classifier alone
ClassifyLines ==
  SourceLines \cup MigrateLines \cup
  { "2024-12-27 20:30:03,001 - ProxLB - warning - node pve1 is offline",
    "2024-12-27 20:30:03,001 - ProxLB - Debug - loading config",
    "2024-12-27 20:30:04,123 - MyApp - INFO - Daemon mode",
    "2024-12-27 20:30:05 INFO",
    "2024-12-27T20:30:06 proxlb ERROR: failed migration of vm 100",
    "2024-12-27 20:30:07,9 - ProxLB - ERROR - failed migration of vm 100",
    "2024-12-27 20:30:08,9 - ProxLB - INFO - migration started for vm 100 but failed",
    "Migration of vm 100 FAILED",
    "moving 105 from node-a to node-b",
    "will migrate guest 105 soon from node-a to node-b",
    "warning: retry failed",
    "debug: a warning was logged",
    "   " }

\* what subprocess.run of "docker logs --tail" can do
Outcomes == {"ok", "nocontainer", "TimeoutExpired", "FileNotFoundError", "PermissionError"}

\* the outcomes that are an OSError of starting docker
StartErrors == {"FileNotFoundError", "PermissionError"}

\* str(e) of the exception an outcome raises
ExcText(e) ==
  CASE e = "FileNotFoundError" -> "[Errno 2] No such file or directory: 'docker'"
    [] e = "PermissionError" -> "[Errno 13] Permission denied: 'docker'"
    [] OTHER -> e

NoContainerText == "Error response from daemon: No such container: proxlb\n"

\* the filters a caller passes ("" is no filter: None and "" are both falsy)
LevelFilters == {"", "error"}

TypeFilters == {"", "migration_start"}

\* the lines the container writes during a follow session; BadBytes stands
\* for output that is not valid in the encoding of the pipe
BadBytes == "<bytes that do not decode>"

FollowLines == {"a", "  b ", "", BadBytes}

(***************************************************************************)
(* The state.                                                              *)
(***************************************************************************)
VARIABLES
  now,        \* the wall clock, in seconds
  source,     \* the container's log: the lines written so far, oldest first
  ret,        \* the call of the LogParser in flight and its outcome, or Idle
  clsLine,    \* the line given to the classifier alone
  calls,      \* the calls of _parse_log_line(clsLine): the clock and the record of each
  wsPc,       \* where websocket_logs is
  proc,       \* the "docker logs -f" process: none, running, exited, terminated
  pipe,       \* the lines the process wrote that readline has not returned yet
  produced,   \* the lines the process wrote in this session
  delivered,  \* the messages sent to the subscriber
  hand,       \* the value of readline() that websocket_logs holds
  apiPc,      \* where the application is: startup, serving
  log_parser, \* the module-level log_parser of main.py: None or the LogParser
  resp,       \* the HTTP request in flight and its response, or NoRequest
  callers,    \* the concurrent calls of the LogParser: where each is and what it holds
  frames,     \* the local variable raw_output of each call's frame
  users,      \* the table of users: each user's row
  reset_tokens, \* the module-level password_reset_tokens of email_service.py
  resets,     \* for each reset token generated, the passwords it has reset so far
  hours,      \* the UTC clock, in hours
  jwts,       \* the access tokens issued by login
  authResp,   \* the request of the auth routes in flight and its response
  config_file, \* the configuration stored at CONFIG_PATH, or None
  cfgResp,    \* the request of the config endpoints in flight and its response
  container,  \* the ProxLB container: absent, stopped or running
  startCall,  \* the call of ProxLBService.start in flight
  issued,     \* the state-changing commands the service gave to _run_docker_cmd
  client      \* the subscriber: connected or disconnected

svcVars == <<now, source, ret>>

clsVars == <<clsLine, calls>>

wsVars == <<wsPc, proc, pipe, produced, delivered, hand, client>>

apiVars == <<apiPc, log_parser, resp>>

concVars == <<callers, frames>>

authVars == <<users, reset_tokens, resets, hours, jwts, authResp>>

cfgVars == <<config_file, cfgResp>>

dockerVars == <<container, startCall, issued>>

extVars == <<authVars, cfgVars, dockerVars>>

vars ==
  <<now, source, ret, clsLine, calls, wsPc, proc, pipe, produced, delivered, hand, client,
    apiPc, log_parser, resp, callers, frames,
    users, reset_tokens, resets, hours, jwts, authResp, config_file, cfgResp, container, startCall, issued>>

Idle == [op |-> "idle"]

\* every line the model classifies, with its record at each clock reading:
\* _parse_log_line is computed once for each
KnownLines == ClassifyLines \cup WindowLines \cup {Strip(NoContainerText), "Timeout getting logs"}
                \cup {"Error: " \o ExcText(e) : e \in Outcomes}
                \cup ({Strip(l) : l \in FollowLines} \ {""})

ParseTable ==
  {[line |-> l, t |-> t, rec |-> _parse_log_line(l, t)] : l \in KnownLines, t \in 0..MaxClock}

\* self._parse_log_line(line) at clock t
ParseLine(line, t) == (CHOOSE e \in ParseTable : e.line = line /\ e.t = t).rec

\* the lines self.log_pattern.match accepts, and those a grammar accepts
PrimaryLines == {l \in KnownLines : ReMatch(log_pattern, Strip(l)).ok}

GrammarLines == {l \in KnownLines : GrammarMatch(Strip(l)).ok}

(***************************************************************************)
(* LogParser: the reads of the log source.  A call returns Return(v) or    *)
(* ends with an exception, Raise(e).                                       *)
(***************************************************************************)
Return(v) == [exc |-> "", value |-> v]

Raise(e) == [exc |-> e]

RECURSIVE JoinLines(_)
JoinLines(ls) == IF ls = <<>> THEN "" ELSE Head(ls) \o "\n" \o JoinLines(Tail(ls))

\* the output of "docker logs --tail n": the last n lines of the log
TailOutput(src, n) ==
  JoinLines(SubSeq(src, IF Len(src) > n THEN Len(src) - n + 1 ELSE 1, Len(src)))

\* subprocess.run(["docker", "logs", "--tail", str(lines), ...], timeout=10):
\* stderr + stdout of the finished process, or the exception raised
RunDockerLogs(src, lines, outcome) ==
  CASE outcome = "ok" -> Return(TailOutput(src, lines))
    [] outcome = "nocontainer" -> Return(NoContainerText)
    [] OTHER -> Raise(outcome)

\* get_raw_logs without its "except Exception"
get_raw_logs_uncaught(src, lines, outcome) ==
  Val({ IF result.exc = "" THEN Return(result.value)
        ELSE IF result.exc = "TimeoutExpired" THEN Return("Timeout getting logs")
        ELSE Raise(result.exc)
        : result \in {RunDockerLogs(src, lines, outcome)} })

get_raw_logs(src, lines, outcome) ==
  Val({ IF result.exc = "" THEN Return(result.value)
        ELSE IF result.exc = "TimeoutExpired" THEN Return("Timeout getting logs")
        ELSE Return("Error: " \o ExcText(result.exc))
        : result \in {RunDockerLogs(src, lines, outcome)} })

MinLineLen == 5

\* the loop of get_logs without its test of the length of the line
KeepLineAll(line, logs, lines, level, event_type, t) ==
  IF line = "" THEN [logs |-> logs, more |-> TRUE]
  ELSE Val({ IF parsed = None THEN [logs |-> logs, more |-> TRUE]
             ELSE IF level # "" /\ Upper(parsed.level) # Upper(level)
             THEN [logs |-> logs, more |-> TRUE]
             ELSE IF event_type # "" /\ parsed.event_type # event_type
             THEN [logs |-> logs, more |-> TRUE]
             ELSE [logs |-> Append(logs, parsed), more |-> Len(logs) + 1 < lines]
             : parsed \in {ParseLine(Strip(line), t)} })

\* one pass of the loop of get_logs: the records kept after the line, and
\* whether the loop goes on
KeepLine(line, logs, lines, level, event_type, t) ==
  IF line = "" \/ Len(Strip(line)) < MinLineLen THEN [logs |-> logs, more |-> TRUE]
  ELSE Val({ IF parsed = None THEN [logs |-> logs, more |-> TRUE]
             ELSE IF level # "" /\ Upper(parsed.level) # Upper(level)
             THEN [logs |-> logs, more |-> TRUE]
             ELSE IF event_type # "" /\ parsed.event_type # event_type
             THEN [logs |-> logs, more |-> TRUE]
             ELSE [logs |-> Append(logs, parsed), more |-> Len(logs) + 1 < lines]
             : parsed \in {ParseLine(Strip(line), t)} })

\* the loop of get_logs over the lines from the i-th on, logs being the records kept
RECURSIVE CollectLogs(_, _, _, _, _, _, _)
CollectLogs(ls, i, logs, lines, level, event_type, t) ==
  IF i > Len(ls) THEN logs
  ELSE Val({ IF r.more THEN CollectLogs(ls, i + 1, r.logs, lines, level, event_type, t)
             ELSE r.logs
             : r \in {KeepLine(ls[i], logs, lines, level, event_type, t)} })

\* get_logs from the local raw_output on: the loop, or the "except"
LogsFrom(raw_output, lines, level, event_type, t) ==
  IF raw_output.exc # ""
  THEN Return(<<[level |-> "ERROR",
                 message |-> "Failed to get logs: " \o ExcText(raw_output.exc),
                 timestamp |-> NowIso(t)]>>)
  ELSE Val({ Return(CollectLogs(ls, 1, <<>>, lines, level, event_type, t))
             : ls \in {SplitLines(Strip(raw_output.value))} })

get_logs(src, lines, level, event_type, outcome, t) ==
  Val({ LogsFrom(raw_output, lines, level, event_type, t)
        : raw_output \in {get_raw_logs(src, lines * 2, outcome)} })

\* dict.get(key, default)
Get(d, key, default) == IF key \in DOMAIN d THEN d[key] ELSE default

\* the last n of seq, for n >= 0
LastN(seq, n) == SubSeq(seq, IF Len(seq) > n THEN Len(seq) - n + 1 ELSE 1, Len(seq))

\* seq[:n] for n >= 0
Prefix(seq, n) == SubSeq(seq, 1, IF n < Len(seq) THEN n ELSE Len(seq))

\* the first n of seq, for n > 0
FirstN(seq, n) == SubSeq(seq, 1, IF n < Len(seq) THEN n ELSE Len(seq))

\* seq[-n:] for n > 0
Suffix(seq, n) == SubSeq(seq, IF Len(seq) > n THEN Len(seq) - n + 1 ELSE 1, Len(seq))

MigrationLines == 500

SummaryLines == 500

ErrMsgLen == 100

KeepErrors == 5

\* the MigrationEvent made from a record that carries a migration
MigrationEvent(log) ==
  LET mig == log.migration
  IN [timestamp |-> Get(log, "timestamp", ""),
      guest_name |-> Get(mig, "guest", Get(mig, "name", "Unknown")),
      from_node |-> Get(mig, "from_node", ""),
      to_node |-> Get(mig, "to_node", ""),
      status |-> Get(mig, "status", "started"),
      type |-> Get(mig, "type", "VM")]

RECURSIVE CollectMigrations(_, _)
CollectMigrations(logs, i) ==
  IF i > Len(logs) THEN <<>>
  ELSE IF Get(logs[i], "is_migration", FALSE) /\ "migration" \in DOMAIN logs[i]
  THEN <<MigrationEvent(logs[i])>> \o CollectMigrations(logs, i + 1)
  ELSE CollectMigrations(logs, i + 1)

\* get_migrations from the local logs on
MigrationsFrom(logs, limit) ==
  IF logs.exc # "" THEN logs
  ELSE Val({ Return(Prefix(migrations, limit))
             : migrations \in {CollectMigrations(logs.value, 1)} })

get_migrations(src, limit, outcome, t) ==
  MigrationsFrom(get_logs(src, MigrationLines, "", "", outcome, t), limit)

SummaryLevels == {"INFO", "WARNING", "ERROR", "DEBUG"}

RECURSIVE ErrorEntries(_, _)
ErrorEntries(logs, i) ==
  IF i > Len(logs) THEN <<>>
  ELSE IF Get(logs[i], "level", "INFO") = "ERROR"
  THEN <<[timestamp |-> Get(logs[i], "timestamp", None),
          message |-> Prefix(Get(logs[i], "message", ""), ErrMsgLen)]>>
         \o ErrorEntries(logs, i + 1)
  ELSE ErrorEntries(logs, i + 1)

\* the fields of a record as the loop of get_events_summary reads them
LevelOf(log) == Get(log, "level", "INFO")

TypeOf(log) == Get(log, "event_type", "general")

IsMig(log) == Get(log, "is_migration", FALSE)

\* summary["migrations"] with total counting the migrations started
MigrationCountsStarted(logs) ==
  LET idx == 1..Len(logs)
  IN [total |-> Cardinality({i \in idx : IsMig(logs[i]) /\ TypeOf(logs[i]) = "migration_start"}),
      successful |->
        Cardinality({i \in idx : IsMig(logs[i]) /\ TypeOf(logs[i]) = "migration_complete"}),
      failed |->
        Cardinality({i \in idx : IsMig(logs[i]) /\ TypeOf(logs[i]) = "migration_failed"})]

\* summary["migrations"] after the loop of get_events_summary
MigrationCounts(logs) ==
  LET idx == 1..Len(logs)
  IN [total |-> Cardinality({i \in idx : IsMig(logs[i])}),
      successful |->
        Cardinality({i \in idx : IsMig(logs[i]) /\ TypeOf(logs[i]) = "migration_complete"}),
      failed |->
        Cardinality({i \in idx : IsMig(logs[i]) /\ TypeOf(logs[i]) = "migration_failed"})]

Summarize(logs) ==
  LET idx == 1..Len(logs)
  IN [total |-> Len(logs),
      by_level |-> [l \in SummaryLevels |-> Cardinality({i \in idx : LevelOf(logs[i]) = l})],
      by_type |-> [e \in {TypeOf(logs[i]) : i \in idx} |->
                     Cardinality({i \in idx : TypeOf(logs[i]) = e})],
      migrations |-> MigrationCounts(logs),
      last_run |-> None,
      errors_recent |-> Suffix(ErrorEntries(logs, 1), KeepErrors)]

\* get_events_summary from the local logs on
SummaryFrom(logs) == IF logs.exc # "" THEN logs ELSE Return(Summarize(logs.value))

get_events_summary(src, outcome, t) ==
  SummaryFrom(get_logs(src, SummaryLines, "", "", outcome, t))

(***************************************************************************)
(* The service: the container writes lines, time passes, and one call of   *)
(* the LogParser at a time is made and answered.                           *)
(***************************************************************************)
\* the result of a call, as ret holds it
Answer(call, result) ==
  Val({ call @@ (IF r.exc = "" THEN [kind |-> "return", value |-> r.value]
                 ELSE [kind |-> "raise", exc |-> r.exc])
        : r \in {result} })

AppendLine(l) ==
  /\ ret = Idle
  /\ Len(source) < MaxSource
  /\ source' = Append(source, l)
  /\ UNCHANGED <<now, ret, clsVars, wsVars, apiVars, concVars, extVars>>

Tick ==
  /\ ret = Idle
  /\ now < MaxClock
  /\ now' = now + 1
  /\ UNCHANGED <<source, ret, clsVars, wsVars, apiVars, concVars, extVars>>

CallGetRawLogs(lines, outcome) ==
  /\ ret = Idle
  /\ ret' = Answer([op |-> "get_raw_logs", lines |-> lines, outcome |-> outcome],
                   get_raw_logs(source, lines, outcome))
  /\ UNCHANGED <<now, source, clsVars, wsVars, apiVars, concVars, extVars>>

CallGetLogs(lines, level, event_type, outcome) ==
  /\ ret = Idle
  /\ ret' = Answer([op |-> "get_logs", lines |-> lines, level |-> level,
                    event_type |-> event_type, outcome |-> outcome],
                   get_logs(source, lines, level, event_type, outcome, now))
  /\ UNCHANGED <<now, source, clsVars, wsVars, apiVars, concVars, extVars>>

CallGetMigrations(limit, outcome) ==
  /\ ret = Idle
  /\ ret' = Answer([op |-> "get_migrations", limit |-> limit, outcome |-> outcome],
                   get_migrations(source, limit, outcome, now))
  /\ UNCHANGED <<now, source, clsVars, wsVars, apiVars, concVars, extVars>>

CallGetEventsSummary(outcome) ==
  /\ ret = Idle
  /\ ret' = Answer([op |-> "get_events_summary", outcome |-> outcome],
                   get_events_summary(source, outcome, now))
  /\ UNCHANGED <<now, source, clsVars, wsVars, apiVars, concVars, extVars>>

\* the caller takes the result
Respond ==
  /\ ret # Idle
  /\ ret' = Idle
  /\ UNCHANGED <<now, source, clsVars, wsVars, apiVars, concVars, extVars>>

\* the state of the parts of the model a specification leaves alone
SvcInit == now = 0 /\ source = <<>> /\ ret = Idle

ClsInit == clsLine = "" /\ calls = <<>>

WsInit ==
  /\ wsPc = "accept"
  /\ proc = "none"
  /\ pipe = <<>>
  /\ produced = <<>>
  /\ delivered = <<>>
  /\ hand = ""
  /\ client = "connected"

\* log_parser: Optional[LogParser] = None, before lifespan has run
NoRequest == [op |-> "none"]

ApiInit == apiPc = "startup" /\ log_parser = None /\ resp = NoRequest

Callers == {1, 2}

NoCall == [pc |-> "idle"]

ConcInit == callers = [c \in Callers |-> NoCall] /\ frames = [c \in Callers |-> None]

\* bcrypt: the hash of a password, which verify_password compares
Hash(password) == [bcrypt |-> password]

UserIds == {1, 2}

\* the rows of the table at the start: an administrator and a user, both active
\* and without 2FA
InitialUsers ==
  [u \in UserIds |->
     [username |-> IF u = 1 THEN "admin" ELSE "alice",
      email |-> IF u = 1 THEN "admin@example.org" ELSE "alice@example.org",
      hashed_password |-> Hash("secret"),
      role |-> IF u = 1 THEN "admin" ELSE "level1",
      is_active |-> TRUE,
      totp_secret |-> None,
      totp_enabled |-> FALSE,
      backup_codes |-> None]]

\* password_reset_tokens = {}
EmptyDict == [k \in {} |-> None]

AuthInit ==
  /\ users = InitialUsers
  /\ reset_tokens = EmptyDict
  /\ resets = <<>>
  /\ hours = 0
  /\ jwts = {}
  /\ authResp = NoRequest

CfgInit == config_file = None /\ cfgResp = NoRequest

DockerInit == container = "absent" /\ startCall = NoCall /\ issued = <<>>

ExtInit == AuthInit /\ CfgInit /\ DockerInit

Init == SvcInit /\ ClsInit /\ WsInit /\ ApiInit /\ ConcInit /\ ExtInit

Next ==
  \/ \E l \in SourceLines : AppendLine(l)
  \/ Tick
  \/ \E lines \in 0..MaxReq, outcome \in Outcomes : CallGetRawLogs(lines, outcome)
  \/ \E lines \in 0..MaxReq, level \in LevelFilters, event_type \in TypeFilters,
        outcome \in Outcomes : CallGetLogs(lines, level, event_type, outcome)
  \/ \E limit \in 0..MaxReq, outcome \in Outcomes : CallGetMigrations(limit, outcome)
  \/ \E outcome \in Outcomes : CallGetEventsSummary(outcome)
  \/ Respond

Spec == Init /\ [][Next]_vars

(***************************************************************************)
(* The classifier alone: one line, classified again and again while the    *)
(* clock moves.                                                            *)
(***************************************************************************)
Classify ==
  /\ Len(calls) < MaxCalls
  /\ calls' = Append(calls, [t |-> now, rec |-> ParseLine(clsLine, now)])
  /\ UNCHANGED <<now, source, ret, clsLine, wsVars, apiVars, concVars, extVars>>

ClockTick ==
  /\ now < MaxClock
  /\ now' = now + 1
  /\ UNCHANGED <<source, ret, clsVars, wsVars, apiVars, concVars, extVars>>

InitClassify ==
  /\ now = 0 /\ source = <<>> /\ ret = Idle
  /\ clsLine \in ClassifyLines
  /\ calls = <<>>
  /\ WsInit /\ ApiInit /\ ConcInit /\ ExtInit

NextClassify == Classify \/ ClockTick

SpecClassify == InitClassify /\ [][NextClassify]_vars

(***************************************************************************)
(* The summary and the migrations of longer windows of migration and error *)
(* lines.                                                                  *)
(***************************************************************************)
AppendWindowLine(l) ==
  /\ ret = Idle
  /\ Len(source) < MaxWindow
  /\ source' = Append(source, l)
  /\ UNCHANGED <<now, ret, clsVars, wsVars, apiVars, concVars, extVars>>

NextWindow ==
  \/ \E l \in WindowLines : AppendWindowLine(l)
  \/ CallGetEventsSummary("ok")
  \/ \E limit \in 0..MaxLimit : CallGetMigrations(limit, "ok")
  \/ Respond

\* the log is empty or already holds the start of a migration
InitWindow ==
  /\ now = 0 /\ ret = Idle
  /\ source \in {<<>>, <<ScenarioLine>>}
  /\ ClsInit
  /\ WsInit /\ ApiInit /\ ConcInit /\ ExtInit

SpecWindow == InitWindow /\ [][NextWindow]_vars

(***************************************************************************)
(* The HTTP endpoints of main.py over the LogParser: lifespan sets the      *)
(* module-level log_parser, and each request is answered with a status.    *)
(***************************************************************************)
\* what the "try" of lifespan can do: the services are made, load_config
\* gives nothing, or ProxmoxAPI(config) raises
StartOutcomes == {"ok", "noconfig", "ProxmoxAPIError"}

ApiOutcomes == {"ok", "FileNotFoundError"}

\* LogParser(DOCKER_CONTAINER_NAME)
LogParser == [container_name |-> "proxlb"]

Lifespan(outcome) ==
  /\ apiPc = "startup"
  /\ apiPc' = "serving"
  /\ log_parser' = IF outcome = "ok" THEN LogParser ELSE log_parser
  /\ UNCHANGED <<svcVars, clsVars, wsVars, concVars, resp, extVars>>

\* an endpoint that never takes the parser for missing
UnavailableNever(parser) == FALSE

\* if not log_parser:
Unavailable(parser) == parser = None

\* raise HTTPException(status_code=..), with the reads of the log source made before it
HttpError(status, reads) == [status |-> status, reads |-> reads]

Ok(body, reads) == [status |-> 200, body |-> body, reads |-> reads]

\* GET /api/logs: a method called on None raises AttributeError inside the try
api_get_logs(parser, src, lines, level, event_type, outcome, outcome2, t) ==
  IF Unavailable(parser) THEN HttpError(503, 0)
  ELSE IF parser = None THEN HttpError(500, 0)
  ELSE Val({ IF logs.exc # "" THEN HttpError(500, 1)
             ELSE Val({ IF summary.exc # "" THEN HttpError(500, 2)
                        ELSE Ok([logs |-> logs.value, summary |-> summary.value], 2)
                        : summary \in {get_events_summary(src, outcome2, t)} })
             : logs \in {get_logs(src, lines, level, event_type, outcome, t)} })

\* GET /api/logs/raw
api_get_raw_logs(parser, src, lines, outcome) ==
  IF Unavailable(parser) THEN HttpError(503, 0)
  ELSE IF parser = None THEN HttpError(500, 0)
  ELSE Val({ IF raw.exc # "" THEN HttpError(500, 1)
             ELSE Ok([logs |-> raw.value, lines |-> lines], 1)
             : raw \in {get_raw_logs(src, lines, outcome)} })

\* GET /api/migrations
api_get_migrations(parser, src, limit, outcome, t) ==
  IF Unavailable(parser) THEN HttpError(503, 0)
  ELSE IF parser = None THEN HttpError(500, 0)
  ELSE Val({ IF migrations.exc # "" THEN HttpError(500, 1)
             ELSE Ok([migrations |-> migrations.value], 1)
             : migrations \in {get_migrations(src, limit, outcome, t)} })

\* the event loop can run another handler: websocket_logs is at an await (or
\* has returned), not inside its synchronous code
LoopFree == wsPc \in {"accept", "send", "sleep", "done"}

Request(path, response) ==
  /\ apiPc = "serving"
  /\ LoopFree
  /\ resp = NoRequest
  /\ resp' = [op |-> path] @@ response
  /\ UNCHANGED <<svcVars, clsVars, wsVars, concVars, apiPc, log_parser, extVars>>

GetApiLogs(lines, outcome, outcome2) ==
  Request("/api/logs", api_get_logs(log_parser, source, lines, "", "", outcome, outcome2, now))

GetApiLogsRaw(lines, outcome) ==
  Request("/api/logs/raw", api_get_raw_logs(log_parser, source, lines, outcome))

GetApiMigrations(limit, outcome) ==
  Request("/api/migrations", api_get_migrations(log_parser, source, limit, outcome, now))

\* GET /api/status, which reads no log
GetApiStatus == Request("/api/status", Ok([version |-> "1.1.10"], 0))

ApiRespond ==
  /\ resp # NoRequest
  /\ LoopFree
  /\ resp' = NoRequest
  /\ UNCHANGED <<svcVars, clsVars, wsVars, concVars, apiPc, log_parser, extVars>>

NextApi ==
  \/ \E outcome \in StartOutcomes : Lifespan(outcome)
  \/ \E l \in SourceLines : AppendLine(l)
  \/ \E lines \in 0..MaxReq, outcome \in ApiOutcomes, outcome2 \in ApiOutcomes :
       GetApiLogs(lines, outcome, outcome2)
  \/ \E lines \in 0..MaxReq, outcome \in ApiOutcomes : GetApiLogsRaw(lines, outcome)
  \/ \E limit \in 0..MaxReq, outcome \in ApiOutcomes : GetApiMigrations(limit, outcome)
  \/ ApiRespond

SpecApi == Init /\ [][NextApi]_vars

(***************************************************************************)
(* Concurrent calls of one LogParser. A call reads the tail into the local *)
(* raw_output of its own frame, and later builds its result from that      *)
(* local; other calls, the container and the clock move in between.        *)
(***************************************************************************)
ConcLines == {ScenarioLine, "garbage line with no structure"}

\* the calls made concurrently, with their arguments
ConcCalls ==
  { [op |-> "get_logs", lines |-> 1],
    [op |-> "get_migrations", limit |-> 1],
    [op |-> "get_events_summary"] }

\* the size of the tail a call asks get_logs for
LinesOf(call) ==
  CASE call.op = "get_logs" -> call.lines
    [] call.op = "get_migrations" -> MigrationLines
    [] call.op = "get_events_summary" -> SummaryLines

\* the rest of a call once raw_output is read, classifying at clock reading t
ResultFrom(call, raw_output, t) ==
  CASE call.op = "get_logs" -> LogsFrom(raw_output, call.lines, "", "", t)
    [] call.op = "get_migrations" ->
         MigrationsFrom(LogsFrom(raw_output, MigrationLines, "", "", t), call.limit)
    [] call.op = "get_events_summary" ->
         SummaryFrom(LogsFrom(raw_output, SummaryLines, "", "", t))

\* raw_output as an attribute of the parser, one for all calls
SharedSlot(c) == 1

\* raw_output is a local variable: each call has its own
Slot(c) == c

\* raw_output = self.get_raw_logs(lines * 2); seen records what was read
ConcRead(c, call) ==
  /\ callers[c].pc = "idle"
  /\ LET raw_output == get_raw_logs(source, LinesOf(call) * 2, "ok")
     IN /\ frames' = [frames EXCEPT ![Slot(c)] = raw_output]
        /\ callers' = [callers EXCEPT ![c] = [pc |-> "read", call |-> call, seen |-> raw_output]]
  /\ UNCHANGED <<svcVars, clsVars, wsVars, apiVars, extVars>>

\* the loop over raw_output and the return
ConcFinish(c) ==
  /\ callers[c].pc = "read"
  /\ callers' = [callers EXCEPT ![c] =
                   [pc |-> "done", call |-> callers[c].call, seen |-> callers[c].seen, t |-> now,
                    result |-> ResultFrom(callers[c].call, frames[Slot(c)], now)]]
  /\ UNCHANGED <<svcVars, clsVars, wsVars, apiVars, frames, extVars>>

\* the caller takes the result
ConcReturn(c) ==
  /\ callers[c].pc = "done"
  /\ callers' = [callers EXCEPT ![c] = NoCall]
  /\ UNCHANGED <<svcVars, clsVars, wsVars, apiVars, frames, extVars>>

\* the parser exists and the application serves
InitConc ==
  /\ SvcInit /\ ClsInit /\ WsInit /\ ConcInit /\ ExtInit
  /\ apiPc = "serving" /\ log_parser = LogParser /\ resp = NoRequest

NextConc ==
  \/ \E l \in ConcLines : AppendLine(l)
  \/ Tick
  \/ \E c \in Callers, call \in ConcCalls : ConcRead(c, call)
  \/ \E c \in Callers : ConcFinish(c)
  \/ \E c \in Callers : ConcReturn(c)

SpecConc == InitConc /\ [][NextConc]_vars

(***************************************************************************)
(* Password reset: forgot-password puts a token in the module-level table  *)
(* password_reset_tokens, reset-password spends it.  A handler has no      *)
(* await from its first statement to its return, so the event loop runs it *)
(* as one step.                                                            *)
(***************************************************************************)
\* timedelta(hours=1)
ResetLifetime == 1

Emails == {"admin@example.org", "alice@example.org", "nobody@example.org"}

NewPasswords == {"new1", "new2"}

\* dict with key set to value, and dict without key
Put(d, key, value) == [k \in DOMAIN d \cup {key} |-> IF k = key THEN value ELSE d[k]]

Del(d, key) == [k \in DOMAIN d \ {key} |-> d[k]]

\* db.query(User).filter(User.email == email).first(): the ids of the rows found
UsersByEmail(email) == {u \in DOMAIN users : users[u].email = email}

\* password_reset_tokens after generate_password_reset_token has added token
generate_password_reset_token(tokens, token, user_id, email, t) ==
  Put(tokens, token, [user_id |-> user_id, email |-> email, expires |-> t + ResetLifetime])

\* verify_password_reset_token: the token's data or None, and the table it leaves
verify_password_reset_token(tokens, token, t) ==
  IF token \notin DOMAIN tokens THEN [data |-> None, tokens |-> tokens]
  ELSE IF t > tokens[token].expires THEN [data |-> None, tokens |-> Del(tokens, token)]
  ELSE [data |-> tokens[token], tokens |-> tokens]

\* a used token left in the table
invalidate_never(tokens, token) == tokens

\* invalidate_password_reset_token: the table it leaves
invalidate_password_reset_token(tokens, token) ==
  IF token \in DOMAIN tokens THEN Del(tokens, token) ELSE tokens

\* POST /api/auth/forgot-password; secrets.token_urlsafe gives a token never
\* given before, here the next number
ForgotPassword(email, smtp) ==
  /\ authResp = NoRequest
  /\ LET found == UsersByEmail(email)
     IN IF found # {} /\ smtp
        THEN /\ Len(resets) < MaxTokens
             /\ LET user_id == CHOOSE u \in found : TRUE
                    token == Len(resets) + 1
                IN /\ reset_tokens' =
                        generate_password_reset_token(reset_tokens, token, user_id, email, hours)
                   /\ resets' = Append(resets, [expires |-> hours + ResetLifetime, count |-> 0])
        ELSE UNCHANGED <<reset_tokens, resets>>
  /\ authResp' = [op |-> "forgot-password", status |-> 200]
  /\ UNCHANGED <<svcVars, clsVars, wsVars, apiVars, concVars, cfgVars, dockerVars,
                 users, hours, jwts>>

\* POST /api/auth/reset-password
ResetPassword(token, new_password) ==
  /\ authResp = NoRequest
  /\ LET v == verify_password_reset_token(reset_tokens, token, hours)
     IN IF v.data = None
        THEN /\ reset_tokens' = v.tokens
             /\ authResp' = [op |-> "reset-password", token |-> token, status |-> 400]
             /\ UNCHANGED <<users, resets>>
        ELSE IF v.data.user_id \notin DOMAIN users
        THEN /\ reset_tokens' = v.tokens
             /\ authResp' = [op |-> "reset-password", token |-> token, status |-> 400]
             /\ UNCHANGED <<users, resets>>
        ELSE /\ users' = [users EXCEPT ![v.data.user_id].hashed_password = Hash(new_password)]
             /\ reset_tokens' = invalidate_password_reset_token(v.tokens, token)
             /\ resets' = [resets EXCEPT ![token].count = @ + 1]
             /\ authResp' = [op |-> "reset-password", token |-> token, status |-> 200]
  /\ UNCHANGED <<svcVars, clsVars, wsVars, apiVars, concVars, cfgVars, dockerVars, hours, jwts>>

\* an hour passes
HourTick ==
  /\ authResp = NoRequest
  /\ hours < MaxHours
  /\ hours' = hours + 1
  /\ UNCHANGED <<svcVars, clsVars, wsVars, apiVars, concVars, cfgVars, dockerVars,
                 users, reset_tokens, resets, jwts, authResp>>

AuthRespond ==
  /\ authResp # NoRequest
  /\ authResp' = NoRequest
  /\ UNCHANGED <<svcVars, clsVars, wsVars, apiVars, concVars, cfgVars, dockerVars,
                 users, reset_tokens, resets, hours, jwts>>

NextReset ==
  \/ \E email \in Emails, smtp \in BOOLEAN : ForgotPassword(email, smtp)
  \/ \E token \in 1..(MaxTokens + 1), new_password \in NewPasswords :
       ResetPassword(token, new_password)
  \/ HourTick
  \/ AuthRespond

SpecReset == Init /\ [][NextReset]_vars

(***************************************************************************)
(* Two-factor authentication: the routes 2fa/setup, 2fa/enable,            *)
(* 2fa/disable and 2fa/verify, called by a user that require_auth let in.  *)
(***************************************************************************)
\* what pyotp.random_base32() can give
TotpSecrets == {[base32 |-> "JBSWY3DP"], [base32 |-> "KRSXG5CT"]}

\* the token an authenticator shows for a secret
TotpCode(secret) == "otp:" \o secret.base32

\* the tokens and the passwords a request can carry
TotpTokens == {TotpCode(secret) : secret \in TotpSecrets} \cup {"000000"}

Passwords == {"secret", "wrong"}

\* verify_totp: pyotp.TOTP(secret).verify(token), False when it raises
verify_totp(secret, token) == secret # None /\ token = TotpCode(secret)

\* User.verify_password
verify_password(user, plain_password) == user.hashed_password = Hash(plain_password)

\* a setup that does not look at totp_enabled
setup_always(user) == TRUE

\* setup_2fa goes on unless "if user.totp_enabled"
setup_allowed(user) == ~user.totp_enabled

AuthAnswer(op, u, request, status) ==
  authResp' = [op |-> op, user |-> u, request |-> request, status |-> status]

\* POST /api/auth/2fa/setup
Setup2fa(u, secret) ==
  /\ authResp = NoRequest
  /\ IF setup_allowed(users[u])
     THEN /\ secret # users[u].totp_secret
          /\ users' = [users EXCEPT ![u].totp_secret = secret]
          /\ AuthAnswer("2fa/setup", u, "", 200)
     ELSE UNCHANGED users /\ AuthAnswer("2fa/setup", u, "", 400)
  /\ UNCHANGED <<svcVars, clsVars, wsVars, apiVars, concVars, cfgVars, dockerVars,
                 reset_tokens, resets, hours, jwts>>

\* POST /api/auth/2fa/enable
Enable2fa(u, token) ==
  /\ authResp = NoRequest
  /\ IF users[u].totp_secret = None
     THEN UNCHANGED users /\ AuthAnswer("2fa/enable", u, token, 400)
     ELSE IF ~verify_totp(users[u].totp_secret, token)
     THEN UNCHANGED users /\ AuthAnswer("2fa/enable", u, token, 400)
     ELSE /\ users' = [users EXCEPT ![u].totp_enabled = TRUE,
                                    ![u].backup_codes = Hash("backup codes")]
          /\ AuthAnswer("2fa/enable", u, token, 200)
  /\ UNCHANGED <<svcVars, clsVars, wsVars, apiVars, concVars, cfgVars, dockerVars,
                 reset_tokens, resets, hours, jwts>>

\* POST /api/auth/2fa/disable
Disable2fa(u, current_password) ==
  /\ authResp = NoRequest
  /\ IF ~verify_password(users[u], current_password)
     THEN UNCHANGED users /\ AuthAnswer("2fa/disable", u, current_password, 400)
     ELSE /\ users' = [users EXCEPT ![u].totp_enabled = FALSE,
                                    ![u].totp_secret = None,
                                    ![u].backup_codes = None]
          /\ AuthAnswer("2fa/disable", u, current_password, 200)
  /\ UNCHANGED <<svcVars, clsVars, wsVars, apiVars, concVars, cfgVars, dockerVars,
                 reset_tokens, resets, hours, jwts>>

\* POST /api/auth/2fa/verify
Verify2fa(u, token) ==
  /\ authResp = NoRequest
  /\ IF ~users[u].totp_enabled THEN AuthAnswer("2fa/verify", u, token, 400)
     ELSE IF verify_totp(users[u].totp_secret, token) THEN AuthAnswer("2fa/verify", u, token, 200)
     ELSE AuthAnswer("2fa/verify", u, token, 400)
  /\ UNCHANGED <<svcVars, clsVars, wsVars, apiVars, concVars, cfgVars, dockerVars,
                 users, reset_tokens, resets, hours, jwts>>

NextTotp ==
  \/ \E u \in UserIds, secret \in TotpSecrets : Setup2fa(u, secret)
  \/ \E u \in UserIds, token \in TotpTokens : Enable2fa(u, token)
  \/ \E u \in UserIds, current_password \in Passwords : Disable2fa(u, current_password)
  \/ \E u \in UserIds, token \in TotpTokens : Verify2fa(u, token)
  \/ AuthRespond

SpecTotp == Init /\ [][NextTotp]_vars

(***************************************************************************)
(* Sessions: login, the dependencies get_current_user, require_auth and    *)
(* require_role, and two endpoints behind them.  get_db is solved once per *)
(* request and cached, so nothing is awaited between the check of          *)
(* get_current_user and the body of the endpoint: a request is one step.   *)
(***************************************************************************)
Usernames == {"admin", "alice", "nobody"}

UsersByName(username) == {u \in DOMAIN users : users[u].username = username}

\* create_access_token: the claims login signs
create_access_token(u) == [sub |-> users[u].username, role |-> users[u].role, user_id |-> u]

\* what a request can carry: no token, a token login issued, a token nobody signed
Forged == [sub |-> "admin", role |-> "admin", user_id |-> 0]

Bearers == jwts \cup {None, Forged}

\* verify_token: the payload of a token this server signed, else None
verify_token(token) == IF token \in jwts THEN token ELSE None

\* get_current_user without the "if not user.is_active" check
get_current_user_any(token) ==
  IF token = None THEN [status |-> 200, user |-> None]
  ELSE IF verify_token(token) = None THEN [status |-> 401, user |-> None]
  ELSE IF UsersByName(verify_token(token).sub) = {} THEN [status |-> 401, user |-> None]
  ELSE [status |-> 200, user |-> [id |-> Val(UsersByName(verify_token(token).sub))]]

\* get_current_user: the user a token stands for, or the error raised
get_current_user(token) ==
  IF token = None THEN [status |-> 200, user |-> None]
  ELSE IF verify_token(token) = None THEN [status |-> 401, user |-> None]
  ELSE IF UsersByName(verify_token(token).sub) = {} THEN [status |-> 401, user |-> None]
  ELSE IF ~users[Val(UsersByName(verify_token(token).sub))].is_active
  THEN [status |-> 401, user |-> None]
  ELSE [status |-> 200, user |-> [id |-> Val(UsersByName(verify_token(token).sub))]]

require_auth(token) ==
  IF get_current_user(token).status # 200 THEN get_current_user(token)
  ELSE IF get_current_user(token).user = None THEN [status |-> 401, user |-> None]
  ELSE get_current_user(token)

require_role(allowed_roles, token) ==
  IF require_auth(token).status # 200 THEN require_auth(token)
  ELSE IF users[require_auth(token).user.id].role \notin allowed_roles
  THEN [status |-> 403, user |-> None]
  ELSE require_auth(token)

\* POST /api/auth/login
Login(username, password) ==
  /\ authResp = NoRequest
  /\ IF UsersByName(username) = {} \/ ~verify_password(users[Val(UsersByName(username) \cup {1})], password)
     THEN /\ authResp' = [op |-> "login", username |-> username, status |-> 401, access_token |-> None]
          /\ UNCHANGED jwts
     ELSE IF ~users[Val(UsersByName(username))].is_active
     THEN /\ authResp' = [op |-> "login", username |-> username, status |-> 401, access_token |-> None]
          /\ UNCHANGED jwts
     ELSE /\ jwts' = jwts \cup {create_access_token(Val(UsersByName(username)))}
          /\ authResp' = [op |-> "login", username |-> username, status |-> 200,
                          access_token |-> create_access_token(Val(UsersByName(username)))]
  /\ UNCHANGED <<svcVars, clsVars, wsVars, apiVars, concVars, cfgVars, dockerVars,
                 users, reset_tokens, resets, hours>>

\* GET /api/auth/me
GetMe(token) ==
  /\ authResp = NoRequest
  /\ authResp' = [op |-> "me", token |-> token, status |-> require_auth(token).status,
                  ran |-> require_auth(token).status = 200]
  /\ UNCHANGED <<svcVars, clsVars, wsVars, apiVars, concVars, cfgVars, dockerVars,
                 users, reset_tokens, resets, hours, jwts>>

\* PUT /api/users/{user_id} with only is_active in the request
UpdateUser(token, user_id, is_active) ==
  /\ authResp = NoRequest
  /\ IF require_role({"admin"}, token).status # 200
     THEN /\ authResp' = [op |-> "update_user", token |-> token,
                          status |-> require_role({"admin"}, token).status, ran |-> FALSE]
          /\ UNCHANGED users
     ELSE IF user_id \notin DOMAIN users
     THEN /\ authResp' = [op |-> "update_user", token |-> token, status |-> 404, ran |-> TRUE]
          /\ UNCHANGED users
     ELSE /\ users' = [users EXCEPT ![user_id].is_active = is_active]
          /\ authResp' = [op |-> "update_user", token |-> token, status |-> 200, ran |-> TRUE]
  /\ UNCHANGED <<svcVars, clsVars, wsVars, apiVars, concVars, cfgVars, dockerVars,
                 reset_tokens, resets, hours, jwts>>

NextAccess ==
  \/ \E username \in Usernames, password \in Passwords : Login(username, password)
  \/ \E token \in Bearers : GetMe(token)
  \/ \E token \in Bearers, user_id \in 1..3, is_active \in BOOLEAN :
       UpdateUser(token, user_id, is_active)
  \/ AuthRespond

SpecAccess == Init /\ [][NextAccess]_vars

(***************************************************************************)
(* The configuration file: GET /api/config and POST /api/config.  Neither  *)
(* handler awaits anything, so each request is one step.                   *)
(***************************************************************************)
Masked == "********"

ProxmoxApi(pass) == [hosts |-> "pve1", user |-> "root@pam", pass |-> pass]

\* the configurations a client can post
PostedPasswords == {Masked, "hunter2", "s3cret"}

PostedConfigs ==
  {[proxmox_api |-> ProxmoxApi(pass), service |-> service] :
      pass \in PostedPasswords, service \in {"INFO", "DEBUG"}}
  \cup {[proxmox_api |-> [hosts |-> "pve1", user |-> "root@pam"]],
        [service |-> "INFO"],
        EmptyDict}

\* load_config: the parsed file, None when there is none
load_config(file) == file

\* the password in a configuration, as a set of at most one element
PasswordOf(config) ==
  IF IsTruthy(config) /\ "proxmox_api" \in DOMAIN config /\ "pass" \in DOMAIN config.proxmox_api
  THEN {config.proxmox_api.pass}
  ELSE {}

\* get_config: the status and the body of GET /api/config
get_config(file) ==
  LET config == load_config(file)
  IN IF ~IsTruthy(config) THEN [status |-> 404, config |-> None]
     ELSE IF "proxmox_api" \in DOMAIN config /\ "pass" \in DOMAIN config.proxmox_api
     THEN [status |-> 200, config |-> [config EXCEPT !.proxmox_api.pass = Masked]]
     ELSE [status |-> 200, config |-> config]

\* the test of "Preserve password if masked"
preserve(current_config, new_config) ==
  /\ IsTruthy(current_config)
  /\ "proxmox_api" \in DOMAIN new_config
  /\ "pass" \in DOMAIN new_config.proxmox_api
  /\ new_config.proxmox_api.pass = Masked

\* update_config: the status of POST /api/config and the file after it;
\* writable tells whether save_config could open the file
update_config(file, new_config, writable) ==
  LET current_config == load_config(file)
  IN IF preserve(current_config, new_config) /\ PasswordOf(current_config) = {}
     THEN [status |-> 500, file |-> file]
     ELSE IF ~writable THEN [status |-> 500, file |-> file]
     ELSE IF preserve(current_config, new_config)
     THEN [status |-> 200,
           file |-> [new_config EXCEPT !.proxmox_api.pass = current_config.proxmox_api.pass]]
     ELSE [status |-> 200, file |-> new_config]

GetConfig ==
  /\ cfgResp = NoRequest
  /\ cfgResp' = [op |-> "GET /api/config", status |-> get_config(config_file).status,
                 config |-> get_config(config_file).config]
  /\ UNCHANGED <<svcVars, clsVars, wsVars, apiVars, concVars, authVars, dockerVars, config_file>>

UpdateConfig(new_config, writable) ==
  /\ cfgResp = NoRequest
  /\ config_file' = update_config(config_file, new_config, writable).file
  /\ cfgResp' = [op |-> "POST /api/config", config |-> new_config,
                 current_config |-> load_config(config_file),
                 status |-> update_config(config_file, new_config, writable).status]
  /\ UNCHANGED <<svcVars, clsVars, wsVars, apiVars, concVars, authVars, dockerVars>>

CfgRespond ==
  /\ cfgResp # NoRequest
  /\ cfgResp' = NoRequest
  /\ UNCHANGED <<svcVars, clsVars, wsVars, apiVars, concVars, authVars, dockerVars, config_file>>

NextCfg ==
  \/ GetConfig
  \/ \E new_config \in PostedConfigs, writable \in BOOLEAN : UpdateConfig(new_config, writable)
  \/ CfgRespond

SpecCfg == Init /\ [][NextCfg]_vars

(***************************************************************************)
(* ProxLBService.start(): get_status, then at most one docker command.     *)
(* The docker daemon and other docker clients act between the two.         *)
(***************************************************************************)
ContainerStates == {"absent", "stopped", "running"}

\* how a docker command can end: it ran, subprocess.run raised
\* TimeoutExpired, the output of inspect was not JSON, or there is no docker
CmdOutcomes == {"ran", "timeout", "garbage", "no docker"}

\* _run_docker_cmd: the return code of a command that ran (rc) or timed out
_run_docker_cmd(outcome, rc) == IF outcome = "timeout" THEN 1 ELSE rc

\* the return code docker gives to inspect, run and start
DockerRc(cmd, state) ==
  IF cmd = "inspect" THEN (IF state = "absent" THEN 1 ELSE 0)
  ELSE IF cmd = "run" THEN (IF state = "absent" THEN 0 ELSE 125)
  ELSE (IF state = "absent" THEN 1 ELSE 0)

\* get_status: what start() observes
get_status(outcome, state) ==
  IF outcome \in {"garbage", "no docker"} THEN [exists |-> FALSE, running |-> FALSE]
  ELSE IF _run_docker_cmd(outcome, DockerRc("inspect", state)) = 0
  THEN [exists |-> TRUE, running |-> state = "running"]
  ELSE [exists |-> FALSE, running |-> FALSE]

\* the command start() chooses, "" for none
StartCommand(status) ==
  IF ~status.exists THEN "run" ELSE IF ~status.running THEN "start" ELSE ""

\* a start() that reports success whatever the return code
StartResultAlways(returncode) == [success |-> TRUE, message |-> "Started successfully"]

\* the dict start() returns after its command
StartResult(returncode) ==
  IF returncode = 0 THEN [success |-> TRUE, message |-> "Started successfully"]
  ELSE [success |-> FALSE, message |-> "failed"]

\* start() up to the return of get_status
StartObserve(outcome) ==
  /\ startCall.pc = "idle"
  /\ Len(issued) < MaxIssued
  /\ startCall' = [pc |-> "observed", inspect |-> outcome, before |-> Len(issued),
                   status |-> get_status(outcome, container)]
  /\ UNCHANGED <<svcVars, clsVars, wsVars, apiVars, concVars, authVars, cfgVars,
                 container, issued>>

\* start() from the test of status to its return; created tells whether a
\* command that timed out had acted before
StartAct(outcome, created) ==
  /\ startCall.pc = "observed"
  /\ outcome # "garbage"
  /\ LET cmd == StartCommand(startCall.status)
         rc == _run_docker_cmd(outcome, DockerRc(cmd, container))
     IN IF cmd = ""
        THEN /\ outcome = "ran" /\ created
             /\ startCall' = [pc |-> "done", status |-> startCall.status,
                              before |-> startCall.before,
                              outcome |-> "none", returncode |-> 0,
                              result |-> [success |-> TRUE, message |-> "Already running"]]
             /\ UNCHANGED <<container, issued>>
        ELSE IF outcome = "no docker"
        THEN /\ created
             /\ startCall' = [pc |-> "done", status |-> startCall.status,
                              before |-> startCall.before,
                              outcome |-> outcome, returncode |-> 127,
                              result |-> [success |-> FALSE, message |-> "raised"]]
             /\ issued' = Append(issued, cmd)
             /\ UNCHANGED container
        ELSE /\ outcome = "ran" => created
             /\ startCall' = [pc |-> "done", status |-> startCall.status,
                              before |-> startCall.before,
                              outcome |-> outcome, returncode |-> rc,
                              result |-> StartResult(rc)]
             /\ issued' = Append(issued, cmd)
             /\ container' = IF DockerRc(cmd, container) = 0 /\ created
                             THEN "running" ELSE container
  /\ UNCHANGED <<svcVars, clsVars, wsVars, apiVars, concVars, authVars, cfgVars>>

StartReturn ==
  /\ startCall.pc = "done"
  /\ startCall' = NoCall
  /\ UNCHANGED <<svcVars, clsVars, wsVars, apiVars, concVars, authVars, cfgVars,
                 container, issued>>

\* stop(): one "docker stop"
Stop(outcome) ==
  /\ startCall.pc = "idle"
  /\ Len(issued) < MaxIssued
  /\ issued' = Append(issued, "stop")
  /\ container' = IF outcome = "ran" /\ container = "running" THEN "stopped" ELSE container
  /\ UNCHANGED <<svcVars, clsVars, wsVars, apiVars, concVars, authVars, cfgVars, startCall>>

\* the container exits, is restarted or is removed by someone else
DockerDaemon(state) ==
  /\ state # container
  /\ container' = state
  /\ UNCHANGED <<svcVars, clsVars, wsVars, apiVars, concVars, authVars, cfgVars,
                 startCall, issued>>

NextDocker ==
  \/ \E outcome \in CmdOutcomes : StartObserve(outcome)
  \/ \E outcome \in CmdOutcomes, created \in BOOLEAN : StartAct(outcome, created)
  \/ StartReturn
  \/ \E outcome \in {"ran", "timeout"} : Stop(outcome)
  \/ \E state \in ContainerStates : DockerDaemon(state)

SpecDocker == Init /\ [][NextDocker]_vars

(***************************************************************************)
(* websocket_logs: the live log endpoint.  One session: the handler        *)
(* accepts the subscriber, starts "docker logs -f" and forwards what       *)
(* readline returns; the container writes lines or stops, and the          *)
(* subscriber may go away at any moment.                                   *)
(***************************************************************************)
\* what subprocess.Popen can do
PopenOutcomes == {"ok", "FileNotFoundError"}

\* what send_text raises once the subscriber is gone: WebSocketDisconnect or
\* another exception, depending on the server stack installed
SendErrors == {"WebSocketDisconnect", "RuntimeError"}

\* a test of the line that takes a blank line for no line
HasText(l) == Strip(l) # ""

\* "if line:" on the value of readline()
HasLine(l) == l # ""

\* except WebSocketDisconnect: process.terminate()
OnWebSocketDisconnect ==
  /\ proc' = IF proc = "running" THEN "terminated" ELSE proc
  /\ wsPc' = "done"
  /\ UNCHANGED client

\* except Exception: await websocket.close(code=1000)
OnException ==
  /\ wsPc' = "done"
  /\ client' = "disconnected"
  /\ UNCHANGED proc

\* await websocket.accept()
WsAccept ==
  /\ wsPc = "accept"
  /\ wsPc' = "popen"
  /\ UNCHANGED <<svcVars, clsVars, apiVars, concVars, proc, pipe, produced, delivered, hand, client, extVars>>

\* process = subprocess.Popen(["docker", "logs", "-f", "--tail", "50", ...])
WsPopen(outcome) ==
  /\ wsPc = "popen"
  /\ IF outcome = "ok"
     THEN proc' = "running" /\ wsPc' = "readline" /\ UNCHANGED client
     ELSE OnException
  /\ UNCHANGED <<svcVars, clsVars, apiVars, concVars, pipe, produced, delivered, hand, extVars>>

\* line = process.stdout.readline(), which waits for a line or the end of the
\* output, and the test of line that follows
WsReadline ==
  /\ wsPc = "readline"
  /\ pipe # <<>> \/ proc # "running"
  /\ IF pipe = <<>>
     THEN hand' = "" /\ wsPc' = "sleep" /\ UNCHANGED <<pipe, proc, client>>
     ELSE /\ pipe' = Tail(pipe)
          /\ IF Head(pipe) = BadBytes
             THEN OnException /\ UNCHANGED hand
             ELSE /\ hand' = Head(pipe) \o "\n"
                  /\ wsPc' = IF HasLine(hand') THEN "send" ELSE "sleep"
                  /\ UNCHANGED <<proc, client>>
  /\ UNCHANGED <<svcVars, clsVars, apiVars, concVars, produced, delivered, extVars>>

\* await websocket.send_text(line.strip())
WsSend(err) ==
  /\ wsPc = "send"
  /\ IF client = "connected"
     THEN delivered' = Append(delivered, Strip(hand)) /\ wsPc' = "readline"
          /\ UNCHANGED <<proc, client>>
     ELSE /\ IF err = "WebSocketDisconnect" THEN OnWebSocketDisconnect ELSE OnException
          /\ UNCHANGED delivered
  /\ UNCHANGED <<svcVars, clsVars, apiVars, concVars, pipe, produced, hand, extVars>>

\* await asyncio.sleep(0.1)
WsSleep ==
  /\ wsPc = "sleep"
  /\ wsPc' = "readline"
  /\ UNCHANGED <<svcVars, clsVars, apiVars, concVars, proc, pipe, produced, delivered, hand, client, extVars>>

\* the container writes a line, which "docker logs -f" copies to the pipe
SourceEmit(l) ==
  /\ proc = "running"
  /\ Len(produced) < MaxEmit
  /\ pipe' = Append(pipe, l)
  /\ produced' = Append(produced, l)
  /\ UNCHANGED <<svcVars, clsVars, apiVars, concVars, wsPc, proc, delivered, hand, client, extVars>>

\* the container stops and "docker logs -f" ends
SourceExit ==
  /\ proc = "running"
  /\ proc' = "exited"
  /\ UNCHANGED <<svcVars, clsVars, apiVars, concVars, wsPc, pipe, produced, delivered, hand, client, extVars>>

\* the subscriber goes away
ClientDisconnect ==
  /\ client = "connected"
  /\ wsPc \notin {"accept", "done"}
  /\ client' = "disconnected"
  /\ UNCHANGED <<svcVars, clsVars, apiVars, concVars, wsPc, proc, pipe, produced, delivered, hand, extVars>>

\* the steps of the handler, which the event loop runs whenever it can go on
WsStep ==
  \/ WsAccept
  \/ \E outcome \in PopenOutcomes : WsPopen(outcome)
  \/ WsReadline
  \/ \E err \in SendErrors : WsSend(err)
  \/ WsSleep

\* the other handlers of the server, run by the same event loop
LoopStep == GetApiStatus \/ ApiRespond

\* the application serves, a subscriber connects
InitWS ==
  /\ SvcInit /\ ClsInit /\ WsInit /\ ConcInit /\ ExtInit
  /\ apiPc = "serving" /\ log_parser = LogParser /\ resp = NoRequest

NextWS ==
  \/ WsStep
  \/ \E l \in FollowLines : SourceEmit(l)
  \/ SourceExit
  \/ ClientDisconnect
  \/ LoopStep

SpecWS == InitWS /\ [][NextWS]_vars /\ WF_vars(WsStep)

(***************************************************************************)
(* The claims.                                                             *)
(***************************************************************************)
\* the session is over for the subscriber
SubscriberGone == client = "disconnected" \/ wsPc = "done"

\* C1: in websocket_logs, once the subscriber has disconnected or the session
\* has ended for any other reason, the "docker logs -f" process is eventually
\* no longer running, also when the source writes nothing more.
C1_FollowProcessReleased == SubscriberGone ~> (proc # "running")

\* C2: within one session of websocket_logs the messages delivered are the
\* lines the source produced, one message per line, in the order produced,
\* none skipped, repeated or merged: while the session runs, every line
\* produced is delivered, in the handler's hand or still in the pipe.
C2_DeliveredInOrderOnce ==
  /\ Len(delivered) <= Len(produced)
  /\ \A i \in 1..Len(delivered) : delivered[i] = Strip(produced[i])
  /\ wsPc \in {"readline", "sleep"} => Len(delivered) + Len(pipe) = Len(produced)
  /\ wsPc = "send" => /\ Len(delivered) + 1 + Len(pipe) = Len(produced)
                      /\ Strip(hand) = Strip(produced[Len(delivered) + 1])

C2_Witness ==
  /\ wsPc = "readline"
  /\ produced = <<"  b ", "", "a">>
  /\ delivered = <<"b", "", "a">>
  /\ pipe = <<>>

NoFilters == ret.level = "" /\ ret.event_type = ""

\* C3: when the tail read raises because docker cannot be started (it is not
\* found, or may not be executed), get_logs without filters returns exactly
\* one record, whose level is ERROR and whose message carries the error
\* text, and get_events_summary returns total = 1.
C3_UnavailableSourceOneErrorRecord ==
  /\ (ret.op = "get_logs" /\ ret.outcome \in StartErrors /\ NoFilters)
       => /\ ret.kind = "return"
          /\ Len(ret.value) = 1
          /\ ret.value[1].level = "ERROR"
          /\ Contains(ret.value[1].message, ExcText(ret.outcome))
  /\ (ret.op = "get_events_summary" /\ ret.outcome \in StartErrors)
       => /\ ret.kind = "return"
          /\ ret.value.total = 1

C3_Witness ==
  /\ ret.op = "get_logs" /\ ret.outcome = "FileNotFoundError" /\ NoFilters
  /\ source # <<>>
  /\ Len(ret.value) = 1
  /\ ret.value[1].level = "ERROR"
  /\ ret.value[1].message = "Error: [Errno 2] No such file or directory: 'docker'"

\* C4: when the tail read exceeds its timeout, get_logs (without filters)
\* returns exactly one record and the level of that record is ERROR.
C4_TimeoutOneErrorRecord ==
  (ret.op = "get_logs" /\ ret.outcome = "TimeoutExpired" /\ NoFilters)
    => /\ ret.kind = "return"
       /\ Len(ret.value) = 1
       /\ ret.value[1].level = "ERROR"

\* C5: get_raw_logs, get_logs, get_migrations and get_events_summary return a
\* value, and do not raise, for every outcome of the tail read and every
\* content of the log.
C5_NeverRaises == ret # Idle => ret.kind = "return"

C5_Witness ==
  /\ ret.op = "get_migrations"
  /\ ret.outcome = "FileNotFoundError"
  /\ source # <<>>
  /\ ret.kind = "return"

\* C6: in every summary get_events_summary returns, the by_level counts of
\* INFO, WARNING, ERROR and DEBUG add up to total.
C6_LevelsSumToTotal ==
  (ret.op = "get_events_summary" /\ ret.kind = "return")
    => ret.value.by_level["INFO"] + ret.value.by_level["WARNING"]
         + ret.value.by_level["ERROR"] + ret.value.by_level["DEBUG"] = ret.value.total

\* C7: for every line the primary grammar matches, the level of the record of
\* _parse_log_line is one of INFO, WARNING, ERROR, DEBUG.
C7_PrimaryLevelCanonical ==
  \A i \in 1..Len(calls) :
    clsLine \in PrimaryLines => calls[i].rec.level \in {"INFO", "WARNING", "ERROR", "DEBUG"}

\* the message has the keyword, in any case
HasKeyword(message, keyword) == Contains(Lower(message), keyword)

\* C8: every message with both keywords "migration" and "failed", in any order,
\* position and case, gets the event type migration_failed.
C8_FailedMigrationTag ==
  \A i \in 1..Len(calls) :
    (/\ calls[i].rec # None
     /\ HasKeyword(calls[i].rec.message, "migration")
     /\ HasKeyword(calls[i].rec.message, "failed"))
      => calls[i].rec.event_type = "migration_failed"

\* C9: a line whose message is "Balancing: Starting to migrate <type> guest
\* <name> from <src> to <dst>." is classified INFO, migration_start, with the
\* migration payload guest = <name>, from_node = <src>, to_node = <dst>,
\* status = "started".
C9_MigrationPayload ==
  \A i \in 1..Len(calls) : \A ty \in GuestTypes, n \in GuestNames, np \in NodePairs :
    clsLine = LogHead \o MigrateMessage(ty, n, np[1], np[2])
      => /\ calls[i].rec.level = "INFO"
         /\ calls[i].rec.event_type = "migration_start"
         /\ "migration" \in DOMAIN calls[i].rec
         /\ calls[i].rec.migration =
              [guest |-> n, from_node |-> np[1], to_node |-> np[2], status |-> "started"]

\* C10 as stated: two calls of _parse_log_line on the same line, at any two
\* moments, return records identical in every field, timestamp included.
C10_SameRecordAtAnyMoment ==
  \A i, j \in 1..Len(calls) : calls[i].rec = calls[j].rec

\* a record without its timestamp
WithoutTimestamp(r) == [k \in DOMAIN r \ {"timestamp"} |-> r[k]]

\* C10 amended: two calls of _parse_log_line on the same line, at any two
\* moments, return records identical in every field except timestamp, and
\* identical in timestamp too when a grammar matches the line.
C10_SameButSyntheticTimestamp ==
  \A i, j \in 1..Len(calls) :
    /\ WithoutTimestamp(calls[i].rec) = WithoutTimestamp(calls[j].rec)
    /\ clsLine \in GrammarLines => calls[i].rec = calls[j].rec

C10_Witness ==
  /\ Len(calls) = 2
  /\ calls[1].t # calls[2].t
  /\ clsLine = "garbage line with no structure"
  /\ calls[1].rec.timestamp # calls[2].rec.timestamp
  /\ calls[1].rec.message = calls[2].rec.message

\* C11: in every record of _parse_log_line, is_migration is true if and only
\* if the record has a migration field, whichever migration pattern matched.
C11_MigrationFlagIffPayload ==
  \A i \in 1..Len(calls) :
    calls[i].rec # None
      => (calls[i].rec.is_migration <=> "migration" \in DOMAIN calls[i].rec)

\* a payload on a message that has no migration event type
C11_Witness ==
  /\ clsLine = "moving 105 from node-a to node-b"
  /\ Len(calls) = 1
  /\ calls[1].rec.event_type = "general"
  /\ calls[1].rec.is_migration
  /\ calls[1].rec.migration.guest = "105"

\* the records of the window that carry the migration flag
Flagged == {i \in 1..Len(source) : ParseLine(source[i], now).is_migration}

FlaggedOfType(type) == {i \in Flagged : ParseLine(source[i], now).event_type = type}

\* C12: in every summary, migrations.total is at least migrations.successful
\* plus migrations.failed, total counting the migration-flagged records of
\* the window and successful / failed those of them whose event type is
\* migration_complete / migration_failed.
C12_MigrationTotals ==
  ret.op = "get_events_summary"
    => /\ ret.value.migrations.total >= ret.value.migrations.successful + ret.value.migrations.failed
       /\ ret.value.migrations.total = Cardinality(Flagged)
       /\ ret.value.migrations.successful = Cardinality(FlaggedOfType("migration_complete"))
       /\ ret.value.migrations.failed = Cardinality(FlaggedOfType("migration_failed"))

C12_Witness ==
  /\ ret.op = "get_events_summary"
  /\ ret.value.migrations.total = 4
  /\ ret.value.migrations.successful = 1
  /\ ret.value.migrations.failed = 2

\* C13: _parse_log_line gives no record exactly for the lines that are empty
\* after trimming; every other line gives a record whose message is not
\* empty, whichever of the primary grammar, the secondary grammar or the
\* fallback produced it.
C13_RecordWithMessage ==
  \A i \in 1..Len(calls) :
    /\ calls[i].rec = None <=> Strip(clsLine) = ""
    /\ calls[i].rec # None => calls[i].rec.message # ""

\* the primary grammar on a line that ends with the level: the level gives
\* its last letter to the message
C13_Witness ==
  /\ clsLine = "2024-12-27 20:30:05 INFO"
  /\ Len(calls) = 1
  /\ calls[1].rec.level = "INF"
  /\ calls[1].rec.message = "O"

\* the index in the window of its k-th record that carries the migration flag
NthFlagged(k) == CHOOSE i \in Flagged : Cardinality({j \in Flagged : j <= i}) = k

\* C14: get_migrations(limit), when the window holds M migration-flagged
\* records, returns exactly min(limit, M) events, and they are made from the
\* first flagged records of the window, in source order.
C14_FirstMigrations ==
  ret.op = "get_migrations"
    => /\ Len(ret.value) = (IF ret.limit < Cardinality(Flagged) THEN ret.limit
                            ELSE Cardinality(Flagged))
       /\ \A k \in 1..Len(ret.value) :
            LET rec == ParseLine(source[NthFlagged(k)], now)
            IN /\ ret.value[k].timestamp = rec.timestamp
               /\ ret.value[k].guest_name = rec.migration.guest
               /\ ret.value[k].status = rec.migration.status

\* limit 2 on a window of five migrations behind a line that is none
C14_Witness ==
  /\ ret.op = "get_migrations"
  /\ ret.limit = 2
  /\ Cardinality(Flagged) = 5
  /\ 1 \notin Flagged
  /\ Len(ret.value) = 2
  /\ ret.value[1].status = "completed"
  /\ ret.value[2].status = "failed"
  /\ ParseLine(source[Len(source)], now).migration.status = "completed"

\* the records of the window at level ERROR
Errors == {i \in 1..Len(source) : ParseLine(source[i], now).level = "ERROR"}

\* the index in the window of its k-th ERROR record
NthError(k) == CHOOSE i \in Errors : Cardinality({j \in Errors : j <= i}) = k

\* C17: errors_recent holds at most 5 entries, made from the last 5 (or
\* fewer) ERROR records of the window in source order, and the message of
\* each is the record's message cut to its first 100 characters.
C17_RecentErrors ==
  ret.op = "get_events_summary"
    => LET er == ret.value.errors_recent
           n == Cardinality(Errors)
       IN /\ Len(er) <= 5
          /\ Len(er) = (IF n < 5 THEN n ELSE 5)
          /\ \A k \in 1..Len(er) :
               LET rec == ParseLine(source[NthError(n - Len(er) + k)], now)
               IN /\ er[k].timestamp = rec.timestamp
                  /\ Len(er[k].message) <= 100
                  /\ Len(er[k].message) <= Len(rec.message)
                  /\ er[k].message = SubSeq(rec.message, 1, Len(er[k].message))
                  /\ Len(er[k].message) = 100 \/ er[k].message = rec.message

\* six errors, the oldest one left out, the newest one last and cut
C17_Witness ==
  /\ ret.op = "get_events_summary"
  /\ Cardinality(Errors) = 6
  /\ Len(ret.value.errors_recent) = 5
  /\ source[1] # LongErrorLine
  /\ source[6] = LongErrorLine
  /\ \A k \in 1..4 : ret.value.errors_recent[k].timestamp = "2024-12-27 20:30:02,5"
  /\ ret.value.errors_recent[5].timestamp = "2024-12-27 20:30:09,1"
  /\ Len(ret.value.errors_recent[5].message) = 100

\* the members of a set of indices in ascending order
Ascending(S) ==
  [k \in 1..Cardinality(S) |-> CHOOSE i \in S : Cardinality({j \in S : j <= i}) = k]

\* the lines of the source that get_logs does not skip for their length
Qualifying == {i \in 1..Len(source) : Len(Strip(source[i])) >= 5}

\* C19: get_logs(lines=N) without filters, on a source that holds more than N
\* qualifying lines, returns the records of the N most recent qualifying
\* lines, the record of the newest line among them.
C19_MostRecentLines ==
  (ret.op = "get_logs" /\ ret.outcome = "ok" /\ NoFilters
     /\ Cardinality(Qualifying) > ret.lines)
    => /\ Len(ret.value) = ret.lines
       /\ \A k \in 1..ret.lines :
            ret.value[k]
              = ParseLine(Strip(source[Ascending(Qualifying)[Cardinality(Qualifying) - ret.lines + k]]),
                          now)

\* C20: for every N >= 0, level filter L and event type filter T and every
\* state of the source, get_logs(N, L, T) returns at most N records, each of
\* level L (whatever the case of the letters) when L is given and of event
\* type T when T is given, in the order of their lines in the source.
C20_AtMostNFiltered ==
  ret.op = "get_logs"
    => /\ ret.kind = "return"
       /\ Len(ret.value) <= ret.lines
       /\ \A k \in 1..Len(ret.value) :
            /\ ret.level # "" => Upper(ret.value[k].level) = Upper(ret.level)
            /\ ret.event_type # "" => ret.value[k].event_type = ret.event_type
       /\ ret.outcome = "ok"
            => \E S \in SUBSET (1..Len(source)) :
                 /\ Cardinality(S) = Len(ret.value)
                 /\ \A k \in 1..Len(ret.value) :
                      ret.value[k] = ParseLine(Strip(source[Ascending(S)[k]]), now)

\* a LogRecord as the text of a message: its five fields by name
RecordText(rec) ==
  "{timestamp: " \o rec.timestamp \o ", level: " \o rec.level \o ", message: " \o rec.message
    \o ", event_type: " \o rec.event_type
    \o ", is_migration: " \o (IF rec.is_migration THEN "true" ELSE "false") \o "}"

\* C15: for each line read from the follow source, websocket_logs pushes the
\* classified LogRecord of the line (timestamp, level, message, event type,
\* migration flag), what _parse_log_line returns for it at the moment of the
\* read, not the unclassified text.
C15_PushesClassifiedRecord ==
  \A i \in 1..Len(delivered) :
    Strip(produced[i]) # ""
      => \E t \in 0..MaxClock : delivered[i] = RecordText(ParseLine(Strip(produced[i]), t))

\* C18: when log_parser is None after startup, each of GET /api/logs,
\* GET /api/logs/raw and GET /api/migrations answers 503 and has made no read
\* of the log source.
C18_NoParser503 ==
  (apiPc = "serving" /\ log_parser = None /\ resp # NoRequest)
    => /\ resp.op \in {"/api/logs", "/api/logs/raw", "/api/migrations"}
       /\ resp.status = 503
       /\ resp.reads = 0

\* a request for the logs of a container that has written, after a startup
\* that made no parser
C18_Witness ==
  /\ apiPc = "serving"
  /\ log_parser = None
  /\ source # <<>>
  /\ resp.op = "/api/logs"
  /\ resp.status = 503

\* C16: concurrent calls of get_logs, get_migrations and get_events_summary
\* share no mutable state, so under every interleaving the result of a call
\* is a function only of the tail snapshot it read itself and of its own
\* arguments: two calls with the same arguments that read the same snapshot
\* return the same result.
C16_ResultOfSnapshotAndArguments ==
  \A c \in Callers, d \in Callers :
    (callers[c].pc = "done" /\ callers[d].pc = "done"
       /\ callers[c].call = callers[d].call /\ callers[c].seen = callers[d].seen)
      => callers[c].result = callers[d].result

\* C16, with the clock: no call writes the parser or the module-level
\* log_parser, and under every interleaving the result of a call is the one
\* its own arguments, the tail snapshot it read itself and the clock reading
\* at which it classified determine.
C16_ResultOfSnapshotArgumentsAndClock ==
  /\ log_parser = LogParser
  /\ \A c \in Callers :
       callers[c].pc = "done"
         => callers[c].result = ResultFrom(callers[c].call, callers[c].seen, callers[c].t)

\* a call has finished on its own snapshot although another call read a
\* later one in between
C16_Witness ==
  /\ callers[1].pc = "done"
  /\ callers[2].pc = "read"
  /\ callers[1].call.op = "get_logs"
  /\ callers[1].seen.value = ""
  /\ callers[2].seen.value # ""
  /\ callers[1].result.value = <<>>
  /\ source # <<>>

\* the order of the catalog of event types
CatalogOrder ==
  <<"migration_start", "migration_complete", "migration_failed", "rebalance_start",
    "rebalance_complete", "daemon_status", "config_load", "node_status", "error", "warning">>

\* the entries of the catalog whose pattern matches the message
MatchingEntries(message) ==
  {k \in 1..Len(event_patterns) : ReFound(event_patterns[k].re, message)}

\* C21: the event type of a record is the tag of the first entry of the
\* catalog, in the order migration_start, migration_complete,
\* migration_failed, rebalance_start, rebalance_complete, daemon_status,
\* config_load, node_status, error, warning, whose pattern matches the
\* message, and general if and only if no entry matches.
C21_FirstMatchingEntry ==
  /\ \A k \in 1..Len(event_patterns) : event_patterns[k].tag = CatalogOrder[k]
  /\ Len(event_patterns) = Len(CatalogOrder)
  /\ \A i \in 1..Len(calls) :
       calls[i].rec # None
         => LET matching == MatchingEntries(calls[i].rec.message)
            IN /\ calls[i].rec.event_type = "general" <=> matching = {}
               /\ matching # {}
                    => \E k \in matching :
                         /\ calls[i].rec.event_type = CatalogOrder[k]
                         /\ \A j \in matching : k <= j

\* a message that three entries match, the first of them giving the tag
C21_Witness ==
  /\ clsLine = "2024-12-27 20:30:08,9 - ProxLB - INFO - migration started for vm 100 but failed"
  /\ Len(calls) = 1
  /\ MatchingEntries(calls[1].rec.message) = {1, 3, 9}
  /\ calls[1].rec.event_type = "migration_start"

\* C22: whenever _extract_migration_info gives a payload, the payload has the
\* four fields guest, from_node, to_node and status, a field the pattern did
\* not capture being defaulted and never missing.
C22_PayloadHasFourFields ==
  \A i \in 1..Len(calls) :
    (calls[i].rec # None /\ "migration" \in DOMAIN calls[i].rec)
      => {"guest", "from_node", "to_node", "status"} \subseteq DOMAIN calls[i].rec.migration

\* a line that neither grammar matches
IsFallback == Strip(clsLine) # "" /\ clsLine \notin GrammarLines

\* the level of the keyword priority: ERROR, then WARNING, then DEBUG, then INFO
KeywordLevel(text) ==
  IF HasKeyword(text, "error") \/ HasKeyword(text, "exception") \/ HasKeyword(text, "failed")
  THEN "ERROR"
  ELSE IF HasKeyword(text, "warning") \/ HasKeyword(text, "warn") THEN "WARNING"
  ELSE IF HasKeyword(text, "debug") THEN "DEBUG"
  ELSE "INFO"

\* C23: for a line that matches neither grammar the message of the record is
\* the trimmed line and its level follows the keyword priority (ERROR for
\* ERROR, EXCEPTION or FAILED in any case, otherwise WARNING for WARNING or
\* WARN, otherwise DEBUG for DEBUG, otherwise INFO); "garbage line with no
\* structure" is INFO, general and no migration.
C23_FallbackMessageAndLevel ==
  \A i \in 1..Len(calls) :
    IsFallback
      => /\ calls[i].rec.message = Strip(clsLine)
         /\ calls[i].rec.level = KeywordLevel(Strip(clsLine))
         /\ clsLine = "garbage line with no structure"
              => /\ calls[i].rec.level = "INFO"
                 /\ calls[i].rec.event_type = "general"
                 /\ ~calls[i].rec.is_migration

\* a fallback line with a keyword of WARNING before a keyword of ERROR
C23_Witness ==
  /\ clsLine = "warning: retry failed"
  /\ IsFallback
  /\ Len(calls) = 1
  /\ calls[1].rec.level = "ERROR"
  /\ calls[1].rec.message = "warning: retry failed"

\* the session waits for the source to write its next line
WaitingForLine == wsPc = "readline" /\ pipe = <<>> /\ proc = "running"

\* C24: while a session of websocket_logs waits for the next line of the
\* source it yields control: in every state in which a session waits for a
\* line, another request handler of the server can take a step.
C24_WaitingYieldsControl == WaitingForLine => ENABLED LoopStep

\* the lines of the source that "docker logs --tail n" prints
TailOf(n) == {i \in 1..Len(source) : i > Len(source) - n}

\* the lines among them that have at least 5 characters after trimming
LongEnough(n) == TailOf(n) \cap Qualifying

\* C25: no record returned by get_logs or get_migrations, or counted by
\* get_events_summary, comes from a line of under 5 characters after
\* trimming: get_logs drops such lines before classification and does not
\* count them against the requested size.
C25_ShortLinesDropped ==
  /\ (ret.op = "get_logs" /\ ret.outcome = "ok" /\ NoFilters)
       => /\ \A k \in 1..Len(ret.value) :
               \E i \in Qualifying : ret.value[k] = ParseLine(Strip(source[i]), now)
          /\ LET n == Cardinality(LongEnough(2 * ret.lines))
             IN Len(ret.value) = (IF n = 0 THEN 0 ELSE IF n < ret.lines THEN n ELSE ret.lines)
  /\ (ret.op = "get_migrations" /\ ret.outcome = "ok")
       => \A k \in 1..Len(ret.value) :
            \E i \in Qualifying :
              ret.value[k].timestamp = ParseLine(Strip(source[i]), now).timestamp
  /\ (ret.op = "get_events_summary" /\ ret.outcome = "ok")
       => ret.value.total = Cardinality(Qualifying)

\* one record asked for and returned, made from the line behind a short one
C25_Witness ==
  /\ ret.op = "get_logs" /\ ret.outcome = "ok" /\ NoFilters
  /\ ret.lines = 1
  /\ source = <<"ok", "garbage line with no structure">>
  /\ Len(ret.value) = 1
  /\ ret.value[1].message = "garbage line with no structure"

\* C26: a password reset token is single-use and time-limited: over any
\* sequence of forgot-password and reset-password requests each token
\* generated resets a password at most once, a token presented after its
\* expiry of one hour resets nothing and is removed from the table, and an
\* unknown token resets nothing.
C26_ResetTokenSingleUse ==
  /\ \A token \in 1..Len(resets) :
       /\ resets[token].count <= 1
       /\ resets[token].count = 1 => token \notin DOMAIN reset_tokens
  /\ DOMAIN reset_tokens \subseteq 1..Len(resets)
  /\ authResp.op = "reset-password"
       => /\ authResp.token \notin 1..Len(resets) => authResp.status = 400
          /\ authResp.token \in 1..Len(resets)
               => /\ hours > resets[authResp.token].expires
                       => /\ authResp.status = 400
                          /\ authResp.token \notin DOMAIN reset_tokens
                  /\ authResp.status = 200
                       => /\ hours <= resets[authResp.token].expires
                          /\ resets[authResp.token].count = 1

\* a token spent once, then refused; another one refused for its age and removed
C26_Witness ==
  /\ Len(resets) = 2
  /\ resets[1].count = 1
  /\ resets[2].count = 0
  /\ hours > resets[2].expires
  /\ authResp.op = "reset-password"
  /\ authResp.token = 2
  /\ authResp.status = 400
  /\ reset_tokens = EmptyDict
  /\ users[2].hashed_password = Hash("new1")

\* totp_enabled only with a secret
EnabledHasSecret == \A u \in UserIds : users[u].totp_enabled => users[u].totp_secret # None

\* what a request of the 2fa routes does to the row of the user it answers
TotpStep ==
  authResp' # NoRequest
    => LET u == authResp'.user
       IN /\ (users[u].totp_enabled /\ users'[u].totp_enabled)
               => users'[u].totp_secret = users[u].totp_secret
          /\ (authResp'.op = "2fa/setup" /\ users[u].totp_enabled)
               => authResp'.status = 400 /\ users' = users
          /\ (authResp'.op = "2fa/enable" /\ authResp'.status = 200)
               => /\ users[u].totp_secret \in TotpSecrets
                  /\ authResp'.request = TotpCode(users[u].totp_secret)
                  /\ users'[u].totp_enabled
          /\ (authResp'.op = "2fa/disable" /\ authResp'.request = "secret")
               => /\ authResp'.status = 200
                  /\ ~users'[u].totp_enabled
                  /\ users'[u].totp_secret = None
                  /\ users'[u].backup_codes = None
          /\ authResp'.status = 400 => users' = users
          /\ \A v \in UserIds \ {u} : users'[v] = users[v]

\* C27: after any sequence of 2fa/setup, 2fa/enable, 2fa/disable and
\* 2fa/verify requests, totp_enabled is true only if totp_secret is set;
\* 2fa/setup is rejected and changes nothing while totp_enabled is true, so
\* the secret of an enabled user is never replaced; 2fa/enable succeeds only
\* after a setup and with a valid token; 2fa/disable with the right password
\* clears totp_enabled, totp_secret and backup_codes together.
C27_TotpStateConsistent == []EnabledHasSecret /\ [][TotpStep]_vars

\* a setup refused for a user whose 2FA is enabled
C27_Witness ==
  /\ users[2].totp_enabled
  /\ users[2].totp_secret = [base32 |-> "JBSWY3DP"]
  /\ users[2].backup_codes # None
  /\ authResp.op = "2fa/setup"
  /\ authResp.user = 2
  /\ authResp.status = 400

\* the tokens issued to users whose is_active is false
TokensOfDisabled == {token \in jwts : \E u \in UserIds : u = token.user_id /\ ~users[u].is_active}

\* what a request does when the account it names or whose token it carries is disabled
AccessStep ==
  authResp' # NoRequest
    => /\ (authResp'.op = "login" /\ \E u \in UsersByName(authResp'.username) : ~users[u].is_active)
            => /\ authResp'.status = 401
               /\ authResp'.access_token = None
               /\ jwts' = jwts
       /\ (authResp'.op \in {"me", "update_user"} /\ authResp'.token \in TokensOfDisabled)
            => /\ authResp'.status = 401
               /\ ~authResp'.ran
               /\ users' = users

\* C28: while a user's is_active is false, login with the right password is
\* answered 401 and issues no token, and every request carrying a token
\* issued to that user before the deactivation is answered 401 by
\* get_current_user, so that no endpoint behind require_auth or require_role
\* runs for that user.
C28_DisabledNeverAuthenticated == [][AccessStep]_vars

\* alice's earlier token refused after the admin has disabled her account
C28_Witness ==
  /\ ~users[2].is_active
  /\ authResp.op = "me"
  /\ authResp.token \in jwts
  /\ authResp.token.user_id = 2
  /\ authResp.status = 401
  /\ ~authResp.ran

\* C29: the configuration GET /api/config returns carries "********" in
\* proxmox_api.pass whenever a password is stored, and after a POST
\* /api/config whose proxmox_api.pass is "********" the stored password is
\* the one that was stored before the request.
C29_PasswordMaskedAndKept ==
  /\ (cfgResp.op = "GET /api/config" /\ PasswordOf(config_file) # {})
        => cfgResp.status = 200 /\ PasswordOf(cfgResp.config) = {Masked}
  /\ (cfgResp.op = "POST /api/config" /\ PasswordOf(cfgResp.config) = {Masked})
        => PasswordOf(config_file) = PasswordOf(cfgResp.current_config)


\* the commands the call of start() in flight has issued
IssuedByStart == SubSeq(issued, startCall.before + 1, Len(issued))

\* C30: start() issues exactly one "docker run" when the observed status
\* says the container does not exist, exactly one "docker start" when it
\* exists but is not running, and no command when it is running, returning
\* success "Already running"; after a command, success is true only if the
\* command exited with code 0, and a command that timed out is a failure.
C30_StartFollowsObservedStatus ==
  startCall.pc = "done"
    => /\ ~startCall.status.exists => IssuedByStart = <<"run">>
       /\ (startCall.status.exists /\ ~startCall.status.running) => IssuedByStart = <<"start">>
       /\ (startCall.status.exists /\ startCall.status.running)
            => /\ IssuedByStart = <<>>
               /\ startCall.result = [success |-> TRUE, message |-> "Already running"]
       /\ (IssuedByStart # <<>> /\ startCall.result.success)
            => startCall.returncode = 0 /\ startCall.outcome = "ran"
       /\ startCall.outcome = "timeout" => ~startCall.result.success

\* a "docker run" that timed out after the container was created
C30_Witness ==
  /\ startCall.pc = "done"
  /\ IssuedByStart = <<"run">>
  /\ startCall.outcome = "timeout"
  /\ ~startCall.result.success
  /\ container = "running"
====
